---- MODULE Spec2Model ----
(***************************************************************************)
(* Model of the wiggy ("Ralph") iteration controller: runRalph (ralph.ts), *)
(* runIteration / selectNextTask (agent.ts), the KeyboardListener          *)
(* (keyboard.ts) and the task-list operations of prd.ts.                   *)
(*                                                                         *)
(* One action is one run-to-completion block of the single-threaded        *)
(* program: the code between two awaits.  The environment (the agent's     *)
(* event stream, git, the operator at the keyboard) is nondeterministic.   *)
(***************************************************************************)
EXTENDS Integers, Sequences, FiniteSets, TLC

(***************************************************************************)
(* Bounds of the model.                                                    *)
(***************************************************************************)
MaxIterations == 2      \* largest args.iterations explored
MaxKeyPresses == 1      \* Ctrl+\ presses by the operator in one run
MaxLines == 1           \* non-empty lines (messages) typed by the operator
MaxAgentMessages == 2   \* events streamed by one implementation invocation
MaxLastIteration == 2   \* largest iteration number found in an old memory log
MaxDocLines == 3        \* lines of a task-list document given to the parser
MaxTextLen == 3         \* words of a description written to the document
MaxCalls == 2           \* calls of prd.ts functions on a parsed list
MaxConfigLines == 3     \* lines of a configuration document (AGENTS.md)

(***************************************************************************)
(* Strings are sequences of symbols (a character, or a word of a line of   *)
(* the task-list document); only the operations the code uses             *)
(* (toLowerCase, includes, startsWith, ===) are modelled.                  *)
(***************************************************************************)
ToLowerChar(c) ==
  IF c = "A" THEN "a" ELSE IF c = "B" THEN "b" ELSE IF c = "T" THEN "t"
  ELSE IF c = "High" THEN "high" ELSE IF c = "Medium" THEN "medium"
  ELSE IF c = "Low" THEN "low" ELSE IF c = "Priority" THEN "priority"
  ELSE IF c = "Feature:" THEN "feature:"
  ELSE IF c = "Acceptance" THEN "acceptance"
  ELSE IF c = "Criteria" THEN "criteria"
  ELSE IF c = "Back" THEN "back" ELSE IF c = "Setup" THEN "setup"
  ELSE IF c = "Build" THEN "build" ELSE IF c = "Lint" THEN "lint"
  ELSE IF c = "Test" THEN "test" ELSE IF c = "Typecheck" THEN "typecheck"
  ELSE IF c = "(Optional)" THEN "(optional)"
  ELSE c

ToLowerCase(s) == [k \in 1..Len(s) |-> ToLowerChar(s[k])]

\* String.prototype.includes: t occurs in s as a contiguous substring
\* (the empty string occurs in every string).
Includes(s, t) ==
  \E k \in 0..(Len(s) - Len(t)) : SubSeq(s, k + 1, k + Len(t)) = t

EmptyString == << >>

\* 'Task completed', the description runIteration reports when the agent
\* printed no "## Completed:" line.
TaskCompletedText == <<"T", "c">>

(***************************************************************************)
(* Task list (prd.ts).  An item carries the fields the controller reads.   *)
(***************************************************************************)
AllDone(criteria) == \A k \in 1..Len(criteria) : criteria[k].done

AnyDone(criteria) == \E k \in 1..Len(criteria) : criteria[k].done

deriveStatusFromCriteria(criteria) ==
  IF Len(criteria) = 0 THEN "pending"
  ELSE IF AllDone(criteria) THEN "done"
  ELSE IF AnyDone(criteria) THEN "working"
  ELSE "pending"

\* normalizeItem for an item whose fields the parser has all set: the parser
\* always supplies id, description, priority and an explicit status, so only
\* passes is recomputed.
normalizeItem(item) ==
  [item EXCEPT !.passes =
     (item.status = "done")
     \/ (Len(item.acceptanceCriteria) > 0 /\ AllDone(item.acceptanceCriteria))]

\* A markItemComplete that marks every item of the list, whatever its id.
markItemComplete_everyItem(items, itemId) ==
  [k \in 1..Len(items) |->
     [items[k] EXCEPT
        !.passes = TRUE,
        !.status = "done",
        !.acceptanceCriteria =
           [c \in 1..Len(items[k].acceptanceCriteria) |->
              [items[k].acceptanceCriteria[c] EXCEPT !.done = TRUE]]]]

markItemComplete(items, itemId) ==
  [k \in 1..Len(items) |->
     IF items[k].id = itemId
     THEN [items[k] EXCEPT
             !.passes = TRUE,
             !.status = "done",
             !.acceptanceCriteria =
                [c \in 1..Len(items[k].acceptanceCriteria) |->
                   [items[k].acceptanceCriteria[c] EXCEPT !.done = TRUE]]]
     ELSE items[k]]

getIncompleteItems(items) == SelectSeq(items, LAMBDA item : ~item.passes)

\* getItemsByPriority: the incomplete items, one bucket per tier.
getItemsByPriority(items) ==
  [high |-> SelectSeq(getIncompleteItems(items),
                      LAMBDA item : item.priority = "high"),
   medium |-> SelectSeq(getIncompleteItems(items),
                        LAMBDA item : item.priority = "medium"),
   low |-> SelectSeq(getIncompleteItems(items),
                     LAMBDA item : item.priority = "low")]

\* Array.prototype.find: index of the first element satisfying P, 0 if none.
FindFirst(items, P(_)) ==
  IF \E k \in 1..Len(items) : P(items[k])
  THEN CHOOSE k \in 1..Len(items) :
         P(items[k]) /\ \A j \in 1..(k - 1) : ~P(items[j])
  ELSE 0

ExactMatch(item, description) ==
  ~item.passes /\ item.description = description

FuzzyMatch(item, description) ==
  ~item.passes
  /\ (Includes(ToLowerCase(item.description), ToLowerCase(description))
      \/ Includes(ToLowerCase(description), ToLowerCase(item.description)))

\* Index of the item markItemCompleteByDescription matches, 0 if none.
MatchedIndex(items, description) ==
  IF FindFirst(items, LAMBDA item : ExactMatch(item, description)) # 0
  THEN FindFirst(items, LAMBDA item : ExactMatch(item, description))
  ELSE FindFirst(items, LAMBDA item : FuzzyMatch(item, description))

\* getWorkingItem: index of the first item whose status is working, 0 if
\* there is none.
getWorkingItem(items) ==
  FindFirst(items, LAMBDA item : item.status = "working")

\* markWorkingItemComplete: [found, items]; found = FALSE is the null return.
markWorkingItemComplete(items) ==
  IF getWorkingItem(items) = 0 THEN [found |-> FALSE, items |-> items]
  ELSE [found |-> TRUE,
        items |-> markItemComplete(items, items[getWorkingItem(items)].id)]

\* A markItemCompleteByDescription that, when nothing matches, marks the
\* first incomplete item instead of returning null.
markItemCompleteByDescription_firstOpen(items, description) ==
  IF MatchedIndex(items, description) # 0
  THEN [found |-> TRUE,
        items |-> markItemComplete(items,
                                   items[MatchedIndex(items, description)].id)]
  ELSE IF getIncompleteItems(items) # << >>
  THEN [found |-> TRUE,
        items |-> markItemComplete(items, getIncompleteItems(items)[1].id)]
  ELSE [found |-> FALSE, items |-> items]

\* markItemCompleteByDescription: [found, items]; found = FALSE is the null
\* return.
markItemCompleteByDescription(items, description) ==
  IF MatchedIndex(items, description) = 0
  THEN [found |-> FALSE, items |-> items]
  ELSE [found |-> TRUE,
        items |-> markItemComplete(items,
                                   items[MatchedIndex(items, description)].id)]

\* An isPrdComplete that does not take a list without items for complete.
isPrdComplete_nonEmpty(items) ==
  Len(items) > 0 /\ \A k \in 1..Len(items) : items[k].passes

isPrdComplete(items) == \A k \in 1..Len(items) : items[k].passes

\* markItemWorking
markItemWorking(items, itemId) ==
  [k \in 1..Len(items) |->
     IF items[k].id = itemId THEN [items[k] EXCEPT !.status = "working"]
     ELSE items[k]]

\* markCriterionComplete: every() of an empty array is true.
markCriterionComplete(items, itemId, criterionDescription) ==
  [k \in 1..Len(items) |->
     IF items[k].id # itemId THEN items[k]
     ELSE
       LET updatedCriteria ==
             [c \in 1..Len(items[k].acceptanceCriteria) |->
                IF Includes(
                     ToLowerCase(items[k].acceptanceCriteria[c].description),
                     ToLowerCase(criterionDescription))
                THEN [items[k].acceptanceCriteria[c] EXCEPT !.done = TRUE]
                ELSE items[k].acceptanceCriteria[c]]
       IN [items[k] EXCEPT
             !.acceptanceCriteria = updatedCriteria,
             !.passes = AllDone(updatedCriteria),
             !.status = IF AllDone(updatedCriteria) THEN "done"
                        ELSE IF AnyDone(updatedCriteria) THEN "working"
                        ELSE @]]

(***************************************************************************)
(* The task-list document is a sequence of lines.  A line is a heading     *)
(* (one or two '#', followed by white space or not), a checkbox line       *)
(* '- [box] text', or an indented bullet '  - text'; its text is a         *)
(* sequence of words.  Requirement and step bullets, the document title    *)
(* written by prdToMarkdown and empty lines carry nothing the controller   *)
(* reads and are left out.                                                 *)
(***************************************************************************)
HeadingLine(level, spaced, text) ==
  [kind |-> "heading", level |-> level, spaced |-> spaced, box |-> "",
   text |-> text]

CheckboxLine(box, text) ==
  [kind |-> "checkbox", level |-> 0, spaced |-> TRUE, box |-> box,
   text |-> text]

StepLine(text) ==
  [kind |-> "step", level |-> 0, spaced |-> TRUE, box |-> "", text |-> text]

\* A serializer that writes no status tag.
StatusIndicator_untagged(item) == << >>

\* prdToMarkdown, line by line: the priority headings in High/Medium/Low
\* order, each followed by its items' feature headings (with the status
\* tag) and their criterion lines.  Ids and passes are not written.
StatusIndicator(item) ==
  IF item.status = "done" THEN <<"[DONE]">>
  ELSE IF item.status = "working" THEN <<"[WORKING]">>
  ELSE << >>

PriorityHeading(priority) ==
  IF priority = "high" THEN <<"High", "Priority">>
  ELSE IF priority = "medium" THEN <<"Medium", "Priority">>
  ELSE <<"Low", "Priority">>

RECURSIVE CriteriaLines(_)
CriteriaLines(criteria) ==
  IF criteria = << >> THEN << >>
  ELSE <<CheckboxLine(IF Head(criteria).done THEN "x" ELSE " ",
                      Head(criteria).description)>>
       \o CriteriaLines(Tail(criteria))

ItemLines(item) ==
  <<HeadingLine(1, TRUE,
                <<"Feature:">> \o StatusIndicator(item) \o item.description)>>
  \o (IF Len(item.acceptanceCriteria) > 0
      THEN <<HeadingLine(2, TRUE, <<"Acceptance", "Criteria">>)>>
           \o CriteriaLines(item.acceptanceCriteria)
      ELSE << >>)

RECURSIVE ItemsLines(_)
ItemsLines(items) ==
  IF items = << >> THEN << >>
  ELSE ItemLines(Head(items)) \o ItemsLines(Tail(items))

TierLines(items, priority) ==
  IF SelectSeq(items, LAMBDA item : item.priority = priority) = << >>
  THEN << >>
  ELSE <<HeadingLine(2, TRUE, PriorityHeading(priority))>>
       \o ItemsLines(SelectSeq(items, LAMBDA item : item.priority = priority))

prdToMarkdown(items) ==
  TierLines(items, "high") \o TierLines(items, "medium")
  \o TierLines(items, "low")

(***************************************************************************)
(* parseMarkdownPrd.  The parser's locals are a record: the items pushed   *)
(* so far (itemIndex is their number), currentPriority, currentItem        *)
(* (open says it is not null) and currentSection.  A line is handled by    *)
(* the first test of the loop body it passes, in the order of the code.    *)
(***************************************************************************)
NoItem ==
  [id |-> 0, description |-> EmptyString, priority |-> "medium",
   status |-> "pending", passes |-> FALSE, acceptanceCriteria |-> << >>]

ParserStart ==
  [items |-> << >>, currentPriority |-> "medium", open |-> FALSE,
   currentItem |-> NoItem, currentSection |-> "none"]

\* items.push(normalizeItem(currentItem, itemIndex++)) when one is open.
PushCurrent(st) ==
  IF st.open
  THEN [st EXCEPT !.items = Append(@, normalizeItem(st.currentItem))]
  ELSE st

StartsWith(s, t) == Len(s) >= Len(t) /\ SubSeq(s, 1, Len(t)) = t

\* /^#\s+(.+)$/ matches and the captured text does not start with 'feature'.
IsTitle(line) ==
  /\ line.kind = "heading" /\ line.level = 1 /\ line.spaced
  /\ line.text # << >>
  /\ ~StartsWith(ToLowerCase(line.text), <<"feature:">>)

\* line.toLowerCase().includes('<tier> priority'), tested on every line.
MentionsTier(line, tier) ==
  Includes(ToLowerCase(line.text), <<tier, "priority">>)

\* /^#{1,2}\s+(?:Feature:\s*)?(.+)$/ matches and the line has no 'priority'.
IsFeatureMatch(line) ==
  /\ line.kind = "heading" /\ line.spaced /\ line.text # << >>
  /\ ~Includes(ToLowerCase(line.text), <<"priority">>)

\* The text the pattern captures: what follows an optional 'Feature:'.
FeatureCapture(line) ==
  IF Head(line.text) = "Feature:" /\ Len(line.text) > 1
  THEN Tail(line.text) ELSE line.text

IsSectionHeader(line) ==
  ToLowerCase(FeatureCapture(line))
    \in { <<"requirements">>, <<"acceptance", "criteria">>, <<"tasks">> }

\* featureMatch[1].trim().replace(/^Feature:\s*/i, '')
FeatureDescription(line) ==
  IF ToLowerChar(Head(FeatureCapture(line))) = "feature:"
  THEN Tail(FeatureCapture(line)) ELSE FeatureCapture(line)

\* /^##\s*Acceptance\s*Criteria/i
IsAcceptanceHeader(line) ==
  /\ line.kind = "heading" /\ line.level = 2
  /\ StartsWith(ToLowerCase(line.text), <<"acceptance", "criteria">>)

\* /^[-*]\s*\[([ xX])\]\s*(.+)$/
IsCriteriaMatch(line) ==
  line.kind = "checkbox" /\ line.box \in {" ", "x", "X"}
  /\ line.text # << >>

\* /^-\s*\[([ xX]|DONE|WORKING)\]\s*\*?\*?(.+?)\*?\*?\s*$/
IsTaskMatch(line) == line.kind = "checkbox" /\ line.text # << >>

TaskStatus(box) ==
  IF box \in {"x", "X", "DONE"} THEN "done"
  ELSE IF box = "WORKING" THEN "working"
  ELSE "pending"

\* /^\s+-\s+(.+)$/
IsStepMatch(line) == line.kind = "step" /\ line.text # << >>

SwitchTier(st, tier) ==
  [PushCurrent(st) EXCEPT !.open = FALSE, !.currentItem = NoItem,
                          !.currentPriority = tier,
                          !.currentSection = "none"]

OpenItem(st, description, status) ==
  LET pushed == PushCurrent(st)
  IN [pushed EXCEPT
        !.open = TRUE,
        !.currentItem =
           [id |-> Len(pushed.items) + 1, description |-> description,
            priority |-> st.currentPriority, status |-> status,
            passes |-> (status = "done"), acceptanceCriteria |-> << >>],
        !.currentSection = "none"]

AddCriterion(st, description, done) ==
  [st EXCEPT !.currentItem.acceptanceCriteria =
                Append(@, [description |-> description, done |-> done])]

\* One pass of the for loop of parseMarkdownPrd.
ParseLine(st, line) ==
  IF IsTitle(line) THEN st
  ELSE IF MentionsTier(line, "high") THEN SwitchTier(st, "high")
  ELSE IF MentionsTier(line, "medium") THEN SwitchTier(st, "medium")
  ELSE IF MentionsTier(line, "low") THEN SwitchTier(st, "low")
  ELSE IF IsFeatureMatch(line)
  THEN IF IsSectionHeader(line) THEN st
       ELSE OpenItem(st, FeatureDescription(line), "pending")
  ELSE IF IsAcceptanceHeader(line)
  THEN [st EXCEPT !.currentSection = "acceptance"]
  ELSE IF st.open /\ st.currentSection = "acceptance"
          /\ IsCriteriaMatch(line)
  THEN AddCriterion(st, line.text, ToLowerChar(line.box) = "x")
  ELSE IF IsTaskMatch(line)
  THEN OpenItem(st, line.text, TaskStatus(line.box))
  ELSE IF IsStepMatch(line) /\ st.open /\ st.currentSection = "none"
  THEN AddCriterion(st, line.text, FALSE)
  ELSE st

\* The parser's locals after the lines, before the last item is pushed.
RECURSIVE ParseLines(_, _)
ParseLines(st, lines) ==
  IF lines = << >> THEN st
  ELSE ParseLines(ParseLine(st, Head(lines)), Tail(lines))

parseMarkdownPrd(lines) == PushCurrent(ParseLines(ParserStart, lines)).items

(***************************************************************************)
(* Phase 1 output (agent.ts).  The text the selection call returns is a    *)
(* sequence of lines; a line is classified by the pattern of               *)
(* parseTaskSelection it can match.  Ids are the decimal numbers the       *)
(* patterns capture.                                                       *)
(***************************************************************************)
SelectedLine(n) == [tag |-> "SELECTED_TASK", id |-> n, text |-> EmptyString]

DescriptionLine(d) == [tag |-> "TASK_DESCRIPTION", id |-> 0, text |-> d]

TaskNumberLine(n, d) == [tag |-> "Task #N", id |-> n, text |-> d]

ProseLine == [tag |-> "prose", id |-> 0, text |-> EmptyString]

SelectionLines ==
  { SelectedLine(1), SelectedLine(3), DescriptionLine(<<"c">>),
    TaskNumberLine(2, EmptyString), TaskNumberLine(3, <<"c">>),
    ProseLine }

\* What a selection call can produce: an exception (or a missing CLI), or
\* an output of at most two lines.
SelectionOutcomes ==
  { [threw |-> TRUE, output |-> << >>] }
  \cup { [threw |-> FALSE, output |-> o] :
           o \in { << >> } \cup { <<l>> : l \in SelectionLines }
                 \cup { <<l1, l2>> : l1 \in SelectionLines, l2 \in SelectionLines } }

FirstWithTag(output, tag) ==
  FindFirst(output, LAMBDA l : l.tag = tag)

\* parseTaskSelection: found = FALSE is the null return.
parseTaskSelection(output) ==
  IF FirstWithTag(output, "SELECTED_TASK") # 0
  THEN [found |-> TRUE,
        taskId |-> output[FirstWithTag(output, "SELECTED_TASK")].id,
        taskDescription |->
          IF FirstWithTag(output, "TASK_DESCRIPTION") # 0
          THEN output[FirstWithTag(output, "TASK_DESCRIPTION")].text
          ELSE EmptyString]
  ELSE IF FirstWithTag(output, "Task #N") # 0
  THEN [found |-> TRUE,
        taskId |-> output[FirstWithTag(output, "Task #N")].id,
        taskDescription |-> output[FirstWithTag(output, "Task #N")].text]
  ELSE [found |-> FALSE, taskId |-> 0, taskDescription |-> EmptyString]

\* selectNextTask: null when the CLI is missing or the query throws.
selectNextTask(cli, outcome) ==
  IF ~cli \/ outcome.threw
  THEN [found |-> FALSE, taskId |-> 0, taskDescription |-> EmptyString]
  ELSE parseTaskSelection(outcome.output)

\* The predicate of incompleteItems.find in runRalph.
SelectionMatches(item, taskSelection) ==
  \/ item.id = taskSelection.taskId
  \/ Includes(ToLowerCase(item.description),
              ToLowerCase(taskSelection.taskDescription))
  \/ Includes(ToLowerCase(taskSelection.taskDescription),
              ToLowerCase(item.description))

\* Index (in the incomplete items) of the selected task, 0 if none.
selectedTask(items, taskSelection) ==
  FindFirst(getIncompleteItems(items),
            LAMBDA item : SelectionMatches(item, taskSelection))

\* parseStructuredOutput: the description after the first "## Completed:"
\* in the concatenated text blocks, '' if there is none.
parseStructuredOutput(output) ==
  IF FindFirst(output, LAMBDA d : d # EmptyString) # 0
  THEN output[FindFirst(output, LAMBDA d : d # EmptyString)]
  ELSE EmptyString

(***************************************************************************)
(* Events of the implementation invocation's stream.                       *)
(***************************************************************************)
TextBlocks ==
  { [type |-> "assistant", marker |-> m, completed |-> d, subtype |-> "",
     errors |-> 0] :
      m \in BOOLEAN, d \in {EmptyString, <<"a">>} }

ResultEvents ==
  { [type |-> "result", marker |-> FALSE, completed |-> EmptyString,
     subtype |-> "success", errors |-> 0],
    [type |-> "result", marker |-> FALSE, completed |-> EmptyString,
     subtype |-> "error", errors |-> 1],
    [type |-> "result", marker |-> FALSE, completed |-> EmptyString,
     subtype |-> "error", errors |-> 0] }

AgentEvents == TextBlocks \cup ResultEvents

(***************************************************************************)
(* Intervention values: Null is null/undefined, EmptyMessage the empty     *)
(* line '', 1..MaxLines the distinct non-empty messages typed.             *)
(***************************************************************************)
Null == -1

EmptyMessage == 0

(***************************************************************************)
(* Quality gates (config.ts) and executeCommand (utils.ts).  A line of the *)
(* configuration document is a heading, a bullet, a comment or a blank     *)
(* line; a bullet is made of tokens: words, a colon, a parenthesised       *)
(* remark, a command between backticks.                                    *)
(***************************************************************************)
Word(w) == [t |-> "word", s |-> <<w>>]

Colon == [t |-> "colon", s |-> <<":">>]

Remark(w) == [t |-> "remark", s |-> <<w>>]

Ticked(command) == [t |-> "ticked", s |-> command]

ConfigHeading(level, title) ==
  [kind |-> "heading", level |-> level, title |-> title, tokens |-> << >>]

ConfigBullet(tokens) ==
  [kind |-> "bullet", level |-> 0, title |-> << >>, tokens |-> tokens]

ConfigComment ==
  [kind |-> "comment", level |-> 0, title |-> << >>, tokens |-> << >>]

ConfigBlank ==
  [kind |-> "blank", level |-> 0, title |-> << >>, tokens |-> << >>]

\* /##\s*<title>[^\n]*\n/i: a heading of level two or more with this title
\* that is followed by a newline.
IsSectionHeading(line, title) ==
  /\ line.kind = "heading" /\ line.level >= 2
  /\ StartsWith(ToLowerCase(line.title), title)

\* (?=\n##\s|\n#\s|$): a heading of level one or two ends the section.
EndsSection(line) == line.kind = "heading" /\ line.level \in {1, 2}

\* Index of the first heading the pattern matches, 0 if there is none.
SectionStart(lines, title) ==
  LET starts == { k \in 1..(Len(lines) - 1) :
                    IsSectionHeading(lines[k], title) }
  IN IF starts = {} THEN 0
     ELSE CHOOSE k \in starts : \A j \in starts : k <= j

\* The captured section: the lines after heading k up to the line before
\* the next level-one or level-two heading that is preceded by a newline of
\* the capture (so never the line right after the heading), or to the end.
SectionLines(lines, k) ==
  LET ends == { e \in (k + 1)..Len(lines) :
                  e = Len(lines) \/ EndsSection(lines[e + 1]) }
  IN SubSeq(lines, k + 1, CHOOSE e \in ends : \A j \in ends : e <= j)

IsWord(tokens, k) == k <= Len(tokens) /\ tokens[k].t = "word"

IsColon(tokens, k) == k <= Len(tokens) /\ tokens[k].t = "colon"

\* /^[-*]\s*(\w+(?:\s+\w+)?)\s*:\s*`?([^`\n]+)`?/i: the number of words of
\* the captured name, 0 when the line does not match.
NameWords(tokens) ==
  IF IsWord(tokens, 1) /\ IsColon(tokens, 2) /\ Len(tokens) >= 3 THEN 1
  ELSE IF /\ IsWord(tokens, 1) /\ IsWord(tokens, 2) /\ IsColon(tokens, 3)
          /\ Len(tokens) >= 4
  THEN 2
  ELSE 0

NamedName(tokens) ==
  IF NameWords(tokens) = 1 THEN tokens[1].s ELSE tokens[1].s \o tokens[2].s

\* [^`\n]+ on a command written without backticks: everything up to the
\* next backtick or the end of the line.
RECURSIVE BareText(_)
BareText(tokens) ==
  IF tokens = << >> \/ Head(tokens).t = "ticked" THEN << >>
  ELSE Head(tokens).s \o BareText(Tail(tokens))

NamedCommand(tokens) ==
  LET rest == SubSeq(tokens, NameWords(tokens) + 2, Len(tokens))
  IN IF Head(rest).t = "ticked" THEN Head(rest).s ELSE BareText(rest)

\* line.toLowerCase().includes('(optional)') || ...includes('optional:')
IsOptional(tokens) ==
  \/ \E k \in 1..Len(tokens) :
       tokens[k].t = "remark" /\ ToLowerCase(tokens[k].s) = <<"(optional)">>
  \/ \E k \in 1..Len(tokens) :
       /\ IsWord(tokens, k) /\ ToLowerCase(tokens[k].s) = <<"optional">>
       /\ IsColon(tokens, k + 1)

\* /^[-*]\s*`([^`]+)`/
IsCommandOnly(tokens) == tokens # << >> /\ Head(tokens).t = "ticked"

HasWord(cmd, words) == \E k \in 1..Len(cmd) : cmd[k] \in words

inferCheckName(command) ==
  LET cmd == ToLowerCase(command)
  IN IF HasWord(cmd, {"test"}) THEN <<"Test">>
     ELSE IF HasWord(cmd, {"lint", "eslint", "clippy"}) THEN <<"Lint">>
     ELSE IF HasWord(cmd, {"typecheck", "tsc", "mypy", "check"})
     THEN <<"Typecheck">>
     ELSE IF HasWord(cmd, {"build", "compile"}) THEN <<"Build">>
     ELSE IF HasWord(cmd, {"format", "fmt"}) THEN <<"Format">>
     ELSE <<Head(command)>>

Check(name, command, required) ==
  [name |-> name, command |-> command, required |-> required]

\* One pass of the loop of parseCommandsFromSection.
ParseConfigLine(checks, line, defaultRequired) ==
  IF line.kind # "bullet" THEN checks
  ELSE IF NameWords(line.tokens) # 0
  THEN Append(checks,
              Check(NamedName(line.tokens), NamedCommand(line.tokens),
                    defaultRequired /\ ~IsOptional(line.tokens)))
  ELSE IF IsCommandOnly(line.tokens)
  THEN Append(checks,
              Check(inferCheckName(Head(line.tokens).s),
                    Head(line.tokens).s, defaultRequired))
  ELSE checks

RECURSIVE ParseConfigLines(_, _, _)
ParseConfigLines(checks, section, defaultRequired) ==
  IF section = << >> THEN checks
  ELSE ParseConfigLines(ParseConfigLine(checks, Head(section),
                                        defaultRequired),
                        Tail(section), defaultRequired)

parseCommandsFromSection(section, defaultRequired) ==
  ParseConfigLines(<< >>, section, defaultRequired)

parseBackPressureConfig(lines) ==
  IF SectionStart(lines, <<"back", "pressure">>) # 0
  THEN parseCommandsFromSection(
         SectionLines(lines, SectionStart(lines, <<"back", "pressure">>)),
         TRUE)
  ELSE IF SectionStart(lines, <<"setup", "commands">>) # 0
  THEN parseCommandsFromSection(
         SectionLines(lines, SectionStart(lines, <<"setup", "commands">>)),
         FALSE)
  ELSE << >>

AutoDetect == <<"AUTO_DETECT">>

\* A getDefaultChecks that returns no check at all.
getDefaultChecks_none == << >>

getDefaultChecks ==
  <<Check(<<"Typecheck">>, AutoDetect, TRUE),
    Check(<<"Lint">>, AutoDetect, TRUE),
    Check(<<"Test">>, AutoDetect, TRUE)>>

\* A configuration document: the file AGENTS.md may not exist.
NoDocument == [exists |-> FALSE, lines |-> << >>]

Document(lines) == [exists |-> TRUE, lines |-> lines]

loadBackPressureConfig(doc) ==
  IF ~doc.exists THEN getDefaultChecks
  ELSE IF Len(parseBackPressureConfig(doc.lines)) = 0 THEN getDefaultChecks
  ELSE parseBackPressureConfig(doc.lines)

\* executeCommand.  What the child process does decides which callbacks
\* fire and in which order: 'close' with the exit code; the timer, then
\* (the child being killed) 'close' with a null code; 'error' when the
\* process cannot be spawned.
\* An exit code that is null (the child was killed) or absent.
NoExitCode == -2

ChildOutcomes == {"exit0", "exit1", "exit127", "timeout", "spawnError"}

ChildEvents(outcome) ==
  IF outcome = "exit0" THEN <<[ev |-> "close", code |-> 0]>>
  ELSE IF outcome = "exit1" THEN <<[ev |-> "close", code |-> 1]>>
  ELSE IF outcome = "exit127" THEN <<[ev |-> "close", code |-> 127]>>
  ELSE IF outcome = "timeout"
  THEN <<[ev |-> "timer", code |-> NoExitCode],
         [ev |-> "close", code |-> NoExitCode]>>
  ELSE <<[ev |-> "error", code |-> NoExitCode]>>

\* The value one callback passes to resolve.
Resolution(event) ==
  IF event.ev = "timer"
  THEN [success |-> FALSE, exitCode |-> -1, note |-> "timed out"]
  ELSE IF event.ev = "error"
  THEN [success |-> FALSE, exitCode |-> -1, note |-> "failed to execute"]
  ELSE IF event.code = 0
  THEN [success |-> TRUE, exitCode |-> 0, note |-> "completed"]
  ELSE [success |-> FALSE,
        exitCode |-> IF event.code = NoExitCode THEN -1 ELSE event.code,
        note |-> "exited"]

\* The calls of resolve one invocation makes, in order.
Resolutions(outcome) ==
  [k \in 1..Len(ChildEvents(outcome)) |-> Resolution(ChildEvents(outcome)[k])]

\* An executeCommand whose timer reports the command as completed.
executeCommand_timeoutOk(outcome) ==
  IF outcome = "timeout"
  THEN [success |-> TRUE, exitCode |-> 0, note |-> "completed"]
  ELSE Head(Resolutions(outcome))

\* The promise settles with the first resolve; later ones have no effect.
executeCommand(outcome) == Head(Resolutions(outcome))

\* The candidate commands of runAutoDetectedCheck, by check name.
Candidates(checkName) ==
  IF ToLowerCase(checkName) = <<"typecheck">>
  THEN << <<"bun", "run", "typecheck">>, <<"pnpm", "typecheck">>,
          <<"npm", "run", "typecheck">>, <<"npx", "tsc", "--noEmit">> >>
  ELSE IF ToLowerCase(checkName) \in {<<"test">>, <<"tests">>}
  THEN << <<"bun", "test">>, <<"pnpm", "test">>, <<"npm", "test">> >>
  ELSE IF ToLowerCase(checkName) = <<"lint">>
  THEN << <<"bun", "run", "lint">>, <<"pnpm", "lint">>,
          <<"npm", "run", "lint">>, <<"npx", "eslint", ".">> >>
  ELSE << >>

\* The quality-gate part of getProgressSummaryByMode: the banner ('fix
\* before continuing' when a check failed) and one line per check; nothing
\* when lastBackPressureResults is undefined or empty.
getProgressSummaryByMode(lastBackPressureResults) ==
  IF Len(lastBackPressureResults) > 0
  THEN [banner |-> IF \E k \in 1..Len(lastBackPressureResults) :
                        ~lastBackPressureResults[k].passed
                   THEN "fix before continuing" ELSE "last status",
        lines |-> [k \in 1..Len(lastBackPressureResults) |->
                     [name |-> lastBackPressureResults[k].name,
                      passed |-> lastBackPressureResults[k].passed]]]
  ELSE [banner |-> "none", lines |-> << >>]

\* The memory summary runRalph builds for a loop pass: it calls
\* getProgressSummaryByMode(config.progressMode, config.workingDir,
\* progressPath) without the fourth argument.
PassSummary(previousResults) == getProgressSummaryByMode(<< >>)

\* The state of one call of runBackPressureChecks: the document the check
\* list is loaded from, checksToRun, the index k of the check of the
\* current loop pass, the index cand of the candidate being awaited (0 for
\* a configured command), results and allPassed, and the commands executed
\* so far with what their child process did; summary is the quality-gate
\* part of the memory summary built for the next loop pass.
NoGate ==
  [pc |-> "none", doc |-> NoDocument, checks |-> << >>, k |-> 0, cand |-> 0,
   results |-> << >>, allPassed |-> TRUE, log |-> << >>,
   summary |-> [banner |-> "none", lines |-> << >>]]

\* A loop pass for which every failing check, required or not, blocks.
RecordCheck_everyCheck(g, result) ==
  [g EXCEPT !.results = Append(@, [name |-> g.checks[g.k].name,
                                   command |-> g.checks[g.k].command,
                                   passed |-> result.success,
                                   exitCode |-> result.exitCode,
                                   note |-> result.note]),
            !.allPassed = IF ~result.success THEN FALSE ELSE @,
            !.k = @ + 1,
            !.cand = 0]

\* The end of a loop pass: allPassed is updated and the result is pushed.
RecordCheck(g, result) ==
  [g EXCEPT !.results = Append(@, [name |-> g.checks[g.k].name,
                                   command |-> g.checks[g.k].command,
                                   passed |-> result.success,
                                   exitCode |-> result.exitCode,
                                   note |-> result.note]),
            !.allPassed = IF g.checks[g.k].required /\ ~result.success
                          THEN FALSE ELSE @,
            !.k = @ + 1,
            !.cand = 0]

\* From the top of loop pass g.k to the next await of executeCommand, or
\* to the return of runBackPressureChecks.
RECURSIVE NextAwait(_)
NextAwait(g) ==
  IF g.k > Len(g.checks) THEN [g EXCEPT !.pc = "returned"]
  ELSE IF g.checks[g.k].command # AutoDetect
  THEN [g EXCEPT !.pc = "awaiting", !.cand = 0]
  ELSE IF Candidates(g.checks[g.k].name) # << >>
  THEN [g EXCEPT !.pc = "awaiting", !.cand = 1]
  ELSE NextAwait(RecordCheck(g, [success |-> TRUE, exitCode |-> NoExitCode,
                                 note |-> "no auto-detection"]))

CurrentCommand(g) ==
  IF g.cand = 0 THEN g.checks[g.k].command
  ELSE Candidates(g.checks[g.k].name)[g.cand]

\* An auto-detection that gives up at the first candidate that is not
\* installed.
AfterCommand_firstOnly(g, outcome) ==
  LET result == executeCommand(outcome)
      ran == [g EXCEPT !.log = Append(@, [k |-> g.k,
                                          command |-> CurrentCommand(g),
                                          outcome |-> outcome])]
  IN IF g.cand = 0 \/ result.success \/ result.exitCode # 127
     THEN NextAwait(RecordCheck(ran, result))
     ELSE NextAwait(RecordCheck(ran, [success |-> TRUE,
                                      exitCode |-> NoExitCode,
                                      note |-> "none configured"]))

\* An awaited executeCommand has settled: the rest of the loop pass of
\* runBackPressureChecks (inside runAutoDetectedCheck when cand > 0).
AfterCommand(g, outcome) ==
  LET result == executeCommand(outcome)
      ran == [g EXCEPT !.log = Append(@, [k |-> g.k,
                                          command |-> CurrentCommand(g),
                                          outcome |-> outcome])]
  IN IF g.cand = 0 \/ result.success \/ result.exitCode # 127
     THEN NextAwait(RecordCheck(ran, result))
     ELSE IF g.cand < Len(Candidates(g.checks[g.k].name))
     THEN [ran EXCEPT !.cand = @ + 1]
     ELSE NextAwait(RecordCheck(ran, [success |-> TRUE,
                                      exitCode |-> NoExitCode,
                                      note |-> "none configured"]))

(***************************************************************************)
(* The set-up of runRalph (config.ts, index.ts) and the memory summary by   *)
(* mode (utils.ts).  A setting that is not set is the empty string, which  *)
(* the || of the code passes over; undefined is a value of its own.         *)
(***************************************************************************)
Unset == ""

Undefined == "undefined"

NoPath == "null"

\* a || b
Or(a, b) == IF a \notin {Unset, Undefined} THEN a ELSE b

\* DEFAULTS: it has no progressMode.
DEFAULTS == [progressFile |-> "progress.txt"]

\* loadConfig: the fields of the object it builds that runRalph reads.  The
\* object has no progressMode property: neither RALPH_PROGRESS_MODE nor the
\* config file's progressMode is read.
loadConfig(env, fileConfig) ==
  [prdFile |-> Or(env.RALPH_PRD_FILE, Or(fileConfig.prdFile, Undefined)),
   progressFile |-> Or(env.RALPH_PROGRESS_FILE,
                       Or(fileConfig.progressFile, DEFAULTS.progressFile)),
   progressMode |-> Undefined]

\* findPrdFile: the first of its two locations that exists.
locations == <<"plans/prd.md", "prd.md">>

findPrdFile(existing) ==
  LET found == SelectSeq(locations, LAMBDA loc : loc \in existing)
  IN IF found = << >> THEN NoPath ELSE Head(found)

\* handleDo up to its call of runRalph: savePrd('do.md', prd).
handleDo(existing) == existing \cup {"do.md"}

\* getProgressFromGit: git log --oneline -n 10, the newest entry first; the
\* log is the sequence of its entries, the oldest first.
GitLogCount == 10

getProgressFromGit(commits) ==
  LET n == IF Len(commits) < GitLogCount THEN Len(commits) ELSE GitLogCount
  IN [k \in 1..n |-> commits[Len(commits) + 1 - k]]

\* entries.slice(-5)
RecentEntries == 5

Recent(entries) ==
  LET n == IF Len(entries) < RecentEntries THEN Len(entries)
           ELSE RecentEntries
  IN SubSeq(entries, Len(entries) - n + 1, Len(entries))

\* The state of one start of the program: the command, the files of the
\* working directory, the environment and the config file, the config
\* loaded and the task-list path chosen, the log of the repository and the
\* memory log, the summary of the current pass and what has been read.
NoSetup ==
  [pc |-> "none", command |-> "run", files |-> {},
   env |-> [RALPH_PRD_FILE |-> Unset, RALPH_PROGRESS_FILE |-> Unset,
            RALPH_PROGRESS_MODE |-> Unset],
   fileConfig |-> [prdFile |-> Unset, progressFile |-> Unset,
                   progressMode |-> Unset],
   config |-> [prdFile |-> Undefined, progressFile |-> Unset,
               progressMode |-> Undefined],
   prdPath |-> NoPath, commits |-> << >>, progress |-> << >>,
   summary |-> [from |-> "none", entries |-> << >>],
   read |-> {}, written |-> {}]

(***************************************************************************)
(* The memory log as text (utils.ts).  A line is the prefix the reader     *)
(* tests with startsWith and the text after it.                            *)
(***************************************************************************)
Line(prefix, text) == [prefix |-> prefix, text |-> text]

Blank == Line("", << >>)

\* initProgressFile: a file that does not exist (no lines) gets the header.
initProgressFile(file) ==
  IF file = << >>
  THEN <<Line("# ", <<"Ralph Progress Log">>), Line("# ", <<"Created:">>),
         Line("# ", <<"This file tracks progress">>),
         Line("# ", <<"Delete this file">>), Blank>>
  ELSE file

Bullets(list) == [k \in 1..Len(list) |-> Line("- ", list[k])]

\* list.map(...).join('\n') || '- None'
BulletsOrNone(list) ==
  IF list = << >> THEN <<Line("- ", <<"None">>)>> ELSE Bullets(list)

\* One '- icon name: passed|FAILED' line, and under a failed check the
\* first lines of its output, indented.
ResultLine(result) ==
  <<Line("- ", <<IF result.passed THEN "ok" ELSE "x", result.name,
                 IF result.passed THEN "passed" ELSE "FAILED">>)>>
  \o (IF ~result.passed
      THEN [k \in 1..Len(result.output) |-> Line("  ", result.output[k])]
      ELSE << >>)

RECURSIVE ResultLines(_)
ResultLines(results) ==
  IF results = << >> THEN << >>
  ELSE ResultLine(Head(results)) \o ResultLines(Tail(results))

\* backPressureSection
backPressureSection(results) ==
  IF Len(results) > 0
  THEN <<Blank, Line("### Back Pressure Results", << >>)>>
       \o ResultLines(results)
  ELSE << >>

\* appendProgress: the block of lines appended for an entry.
appendProgressText(file, entry) ==
  initProgressFile(file)
  \o <<Blank,
       Line("## Iteration", <<entry.iteration, "-", "timestamp">>),
       Blank,
       Line("### Task:", entry.taskDescription),
       Blank,
       Blank,
       Line("### Decisions", << >>)>>
  \o BulletsOrNone(entry.decisions)
  \o <<Blank, Line("### Files Changed", << >>)>>
  \o BulletsOrNone(entry.filesChanged)
  \o backPressureSection(entry.backPressureResults)
  \o <<Blank, Line("### Notes", << >>), Line("", <<"None">>), Blank,
       Line("---", << >>)>>

\* content.split(/^## Iteration \d+/m).slice(1): the lines after each
\* iteration heading, up to the next one.
IterationBlocks(lines) ==
  LET heads == SelectSeq([k \in 1..Len(lines) |-> k],
                         LAMBDA k : lines[k].prefix = "## Iteration")
  IN [j \in 1..Len(heads) |->
        SubSeq(lines, heads[j] + 1,
               IF j < Len(heads) THEN heads[j + 1] - 1 ELSE Len(lines))]

\* The loop of loadProgress over the lines of one block, by what it leaves
\* behind.  currentSection at line k is set by the last of the headings
\* '### Decisions', '### Files Changed' and '### Notes' before it; no other
\* line changes it.
SectionOf(prefix) ==
  IF prefix = "### Decisions" THEN "decisions"
  ELSE IF prefix = "### Files Changed" THEN "files"
  ELSE "notes"

currentSection(lines, k) ==
  LET headings == { j \in 1..(k - 1) :
                      lines[j].prefix \in {"### Decisions",
                                           "### Files Changed",
                                           "### Notes"} }
  IN IF headings = {} THEN ""
     ELSE SectionOf(lines[CHOOSE j \in headings :
                            \A m \in headings : m <= j].prefix)

\* The texts pushed for a section: those of the '- ' lines met while it is
\* the current section.
Pushed(lines, section) ==
  LET at == SelectSeq([k \in 1..Len(lines) |-> k],
                      LAMBDA k : /\ lines[k].prefix = "- "
                                 /\ currentSection(lines, k) = section)
  IN [j \in 1..Len(at) |-> lines[at[j]].text]

\* entry.taskDescription: the text of the last '### Task:' line.
TaskOf(lines) ==
  LET tasks == { j \in 1..Len(lines) : lines[j].prefix = "### Task:" }
  IN IF tasks = {} THEN EmptyString
     ELSE lines[CHOOSE j \in tasks : \A m \in tasks : m <= j].text

\* loadProgress on the text: an entry per block that has a task
\* description, numbered entries.length + 1.
RECURSIVE ReadBlocks(_, _)
ReadBlocks(entries, blocks) ==
  IF blocks = << >> THEN entries
  ELSE LET entry == [iteration |-> Len(entries) + 1,
                     taskDescription |-> TaskOf(Head(blocks)),
                     decisions |-> Pushed(Head(blocks), "decisions"),
                     filesChanged |-> Pushed(Head(blocks), "files")]
       IN ReadBlocks(IF entry.taskDescription # EmptyString
                     THEN Append(entries, entry) ELSE entries,
                     Tail(blocks))

loadProgressText(lines) == ReadBlocks(<< >>, IterationBlocks(lines))

\* The memory log of one run: its lines, the entries appended to it and
\* the entries read back.
NoMemo == [pc |-> "none", file |-> << >>, written |-> << >>,
           loaded |-> << >>]

(***************************************************************************)
(* State.                                                                  *)
(***************************************************************************)
VARIABLES
  hitl,                    \* args.hitl
  iterations,              \* args.iterations
  progressMode,            \* config.progressMode over its declared type: "git" or "file"
  cliFound,                \* findClaudeCodePath() finds an executable
  pc,                      \* where runRalph is suspended
  i,                       \* the loop index of runRalph
  state,                   \* LoopState: iteration, prd, isComplete, lastError
  pendingIntervention,     \* runRalph's local pendingIntervention
  enhancedProgressSummary, \* the feedback folded into the pass's summary
  selectedTaskDescription, \* runRalph's local of that name
  iter,                    \* locals of the running runIteration call
  keyboard,                \* the KeyboardListener singleton's fields
  handlerPrompt,           \* the 'intervention' handler awaits its prompt
  progressFile,            \* the memory log: the entries appended to it
  prdFile,                 \* the task-list document on disk
  keyPresses,              \* Ctrl+\ presses so far
  linesTyped,              \* non-empty operator messages so far
  exitStatus,              \* the exit status of the process, once it ended
  h,                       \* history, read by the properties only
  taskList,                \* prd.ts alone: the items of the PrdJson in hand
  call,                    \* prd.ts alone: the last call and its arguments
  gate,                    \* config.ts alone: a runBackPressureChecks call
  tool,                    \* complete-task.ts alone: an executeCompleteTask call
  setup,                   \* the set-up of runRalph alone: config and files
  memo                     \* utils.ts alone: a memory entry written and read

vars ==
  <<hitl, iterations, progressMode, cliFound, pc, i, state,
    pendingIntervention, enhancedProgressSummary, selectedTaskDescription,
    iter, keyboard, handlerPrompt, progressFile, prdFile, keyPresses,
    linesTyped, exitStatus, h, taskList, call, gate, tool, setup, memo>>

\* The record of a call of a function of prd.ts: its name, the lines
\* (parseMarkdownPrd) or the list (before) it was given, its itemId and
\* text arguments, whether it returned a list (found) or null, and how
\* many calls were made on the list since it was first parsed (n).
NoCall ==
  [op |-> "none", lines |-> << >>, before |-> << >>, itemId |-> 0,
   text |-> << >>, found |-> FALSE, n |-> 0]

\* The task-list document as the run found it: its text is whatever the
\* operator wrote, known only through the items parsed from it.
OriginalPrdFile == [original |-> TRUE, lines |-> << >>]

NoResult ==
  [success |-> FALSE, isComplete |-> FALSE, wasInterrupted |-> FALSE,
   taskDescription |-> EmptyString, error |-> "", intervention |-> Null]

\* Besides the step, the history keeps: how many prompts carried each
\* message (injections); where
\* the interrupt flag now raised was raised (raised: during the running
\* invocation, during one that has since completed, or elsewhere); and a
\* message captured during an invocation, due in the next prompt once that
\* invocation has completed (owed); how many calls of runIteration have
\* returned a result that was not interrupted (returned).
\* What the history records about one step: the result runRalph handled in
\* it and the counters and files as they were when it was returned (at),
\* the effects of the recording in their order, the agent calls made, and
\* what the completeness check at the head of a pass found; selected is
\* runRalph's selectedTaskDescription when the result was returned.
NoStep ==
  [result |-> NoResult, outcome |-> "none",
   at |-> [i |-> 0, iteration |-> 0, items |-> << >>,
           prdFile |-> OriginalPrdFile, progressFile |-> << >>,
           lastError |-> ""],
   passLog |-> << >>, calls |-> << >>, bodyStart |-> "none",
   selection |-> "none", taskId |-> 0, chosen |-> 0,
   selected |-> EmptyString]

\* The current state as one record, so that a run-to-completion block can be
\* written as a function from state to state.  The step part of the history
\* starts empty in every step.
Cur ==
  [pc |-> pc, i |-> i, state |-> state,
   pendingIntervention |-> pendingIntervention,
   enhancedProgressSummary |-> enhancedProgressSummary,
   selectedTaskDescription |-> selectedTaskDescription,
   iter |-> iter, keyboard |-> keyboard, handlerPrompt |-> handlerPrompt,
   progressFile |-> progressFile, prdFile |-> prdFile,
   keyPresses |-> keyPresses, linesTyped |-> linesTyped,
   exitStatus |-> exitStatus,
   h |-> [h EXCEPT !.step = NoStep]]

Apply(s) ==
  /\ pc' = s.pc
  /\ i' = s.i
  /\ state' = s.state
  /\ pendingIntervention' = s.pendingIntervention
  /\ enhancedProgressSummary' = s.enhancedProgressSummary
  /\ selectedTaskDescription' = s.selectedTaskDescription
  /\ iter' = s.iter
  /\ keyboard' = s.keyboard
  /\ handlerPrompt' = s.handlerPrompt
  /\ progressFile' = s.progressFile
  /\ prdFile' = s.prdFile
  /\ keyPresses' = s.keyPresses
  /\ linesTyped' = s.linesTyped
  /\ exitStatus' = s.exitStatus
  /\ h' = s.h
  /\ UNCHANGED <<hitl, iterations, progressMode, cliFound>>
  /\ UNCHANGED <<taskList, call, gate, tool, setup, memo>>

(***************************************************************************)
(* Initial states: the task lists parseMarkdownPrd can produce.            *)
(***************************************************************************)
Criterion(d, done) == [description |-> d, done |-> done]

Item(id, d, priority, status, criteria) ==
  normalizeItem([id |-> id, description |-> d, priority |-> priority,
                 status |-> status, passes |-> FALSE,
                 acceptanceCriteria |-> criteria])

NoPrd == [exists |-> FALSE, items |-> << >>]

Prd(items) == [exists |-> TRUE, items |-> items]

InitialPrds ==
  { NoPrd,
    Prd(<< >>),
    Prd(<<Item(1, <<"a">>, "high", "pending", << >>)>>),
    Prd(<<Item(1, <<"a">>, "high", "pending", << >>),
          Item(2, <<"a", "b">>, "medium", "pending", << >>)>>),
    Prd(<<Item(1, <<"a">>, "high", "done", << >>),
          Item(2, <<"B">>, "low", "working",
               <<Criterion(<<"c">>, TRUE), Criterion(<<"a">>, FALSE)>>)>>),
    Prd(<<Item(1, <<"B">>, "medium", "pending",
               <<Criterion(<<"c">>, TRUE)>>)>>) }

\* The memory logs a run can start from: empty, or one block written by an
\* earlier run in its pass number n (the passes before it having failed).
InitialProgressFiles ==
  { << >> } \cup { <<[iteration |-> n, task |-> <<"a">>]>> :
                     n \in 1..MaxLastIteration }

\* loadProgress: the blocks that have a task description, each numbered by
\* its position among them (iteration: entries.length + 1), whatever the
\* number in its '## Iteration N' line.
loadProgress(file) ==
  LET blocks == SelectSeq(file, LAMBDA e : e.task # EmptyString)
  IN [k \in 1..Len(blocks) |-> [blocks[k] EXCEPT !.iteration = k]]

\* getLastIteration: the largest iteration number of the loaded entries, 0
\* if there is none.
getLastIteration(file) ==
  IF loadProgress(file) = << >> THEN 0
  ELSE CHOOSE n \in { loadProgress(file)[k].iteration :
                        k \in 1..Len(loadProgress(file)) } :
         \A k \in 1..Len(loadProgress(file)) :
           loadProgress(file)[k].iteration <= n

\* The branch on mode of getProgressSummaryByMode: 'git' reads the log of
\* the repository, every other value of mode reads the memory log.
SummaryByMode(mode, commits, file) ==
  IF mode = "git"
  THEN [from |-> "git log", entries |-> getProgressFromGit(commits)]
  ELSE [from |-> "memory log",
        entries |-> [k \in 1..Len(Recent(loadProgress(file))) |->
                       Recent(loadProgress(file))[k].iteration]]

\* The state of one call of executeCompleteTask: its config and input, the
\* task-list document and the memory log on disk, what git did, the result
\* returned, and the two files as they were before the call.
NoTool ==
  [pc |-> "none",
   config |-> [progressMode |-> "git", progressPath |-> FALSE,
               prdPath |-> FALSE, iteration |-> 0],
   input |-> [taskDescription |-> EmptyString],
   prd |-> NoPrd, progress |-> << >>,
   git |-> [status |-> "clean", stageOk |-> TRUE, commitOk |-> TRUE],
   result |-> [success |-> FALSE, committed |-> FALSE,
               progressUpdated |-> FALSE, prdUpdated |-> FALSE],
   before |-> [prd |-> NoPrd, progress |-> << >>]]

Init ==
  /\ hitl \in BOOLEAN
  /\ iterations \in 1..MaxIterations
  /\ progressMode \in {"git", "file"}
  /\ cliFound \in BOOLEAN
  /\ pc = "start"
  /\ i = 1
  /\ progressFile \in (IF progressMode = "file" THEN InitialProgressFiles
                       ELSE { << >> })
  /\ \E prd \in InitialPrds :
       state = [iteration |-> IF progressMode = "file"
                              THEN getLastIteration(progressFile) ELSE 0,
                prd |-> prd, isComplete |-> FALSE, lastError |-> ""]
  /\ prdFile = OriginalPrdFile
  /\ pendingIntervention = Null
  /\ enhancedProgressSummary = Null
  /\ selectedTaskDescription = EmptyString
  /\ iter = [fullOutput |-> << >>, isComplete |-> FALSE,
             intervention |-> Null, received |-> 0]
  /\ keyboard = [isListening |-> TRUE, isPaused |-> FALSE,
                 isInterrupted |-> FALSE, pendingIntervention |-> Null]
  /\ handlerPrompt = FALSE
  /\ keyPresses = 0
  /\ linesTyped = 0
  /\ exitStatus = NoExitCode
  /\ h = [injections |-> [m \in 1..MaxLines |-> 0],
         raised |-> "none",
         owed |-> [msg |-> Null, due |-> FALSE],
         returned |-> 0,
         step |-> NoStep]
  /\ taskList = << >>
  /\ call = NoCall
  /\ gate = NoGate
  /\ tool = NoTool
  /\ setup = NoSetup
  /\ memo = NoMemo

(***************************************************************************)
(* runRalph and runIteration, one operator per run-to-completion block.    *)
(* The blocks call each other where the code runs on without an await.     *)
(***************************************************************************)
RECURSIVE LoopHead(_)
RECURSIVE HandleResult(_, _, _, _)

\* main after its await of runRalph: process.exit(1) in the catch clause
\* when runRalph threw; when it returned there is no call of process.exit
\* and the process ends with the status of a normal end, 0.
main(threw) == IF threw THEN 1 ELSE 0

\* keyboard.stop() and the final status report: the run is over, runRalph
\* returns to main.
Finish(s) ==
  [s EXCEPT !.pc = "done",
            !.keyboard.isListening = FALSE,
            !.handlerPrompt = FALSE,
            !.exitStatus = main(FALSE)]

\* savePrd
savePrd(items) == [original |-> FALSE, lines |-> prdToMarkdown(items)]

\* createProgressEntry followed by appendProgress
appendProgress(file, iteration, taskDescription) ==
  Append(file, [iteration |-> iteration, task |-> taskDescription])

\* History: one more prompt of an agent invocation carries message msg
\* (counted up to 2).
Injected(injections, msg) ==
  IF msg \in DOMAIN injections
  THEN [injections EXCEPT ![msg] = IF @ < 2 THEN @ + 1 ELSE @]
  ELSE injections

\* The call of runIteration up to its first await: the CLI lookup, the
\* keyboard's stored message moved into the user prompt, the query started
\* with the system prompt of the given kind.
RunIterationStart(s, kind) ==
  IF ~cliFound
  THEN HandleResult([s EXCEPT !.enhancedProgressSummary = Null,
                              !.h.step.calls = Append(@, kind)],
                    [NoResult EXCEPT !.error = "cli-not-found"], FALSE, FALSE)
  ELSE [s EXCEPT
          !.pc = "running",
          !.enhancedProgressSummary = Null,
          !.iter = [fullOutput |-> << >>, isComplete |-> FALSE,
                    intervention |-> s.keyboard.pendingIntervention,
                    received |-> 0],
          !.keyboard.pendingIntervention = Null,
          !.h.step.calls = Append(@, kind),
          !.h.injections =
             Injected(Injected(@, s.enhancedProgressSummary),
                      s.keyboard.pendingIntervention),
          !.h.owed =
             IF @.msg \in {s.enhancedProgressSummary,
                           s.keyboard.pendingIntervention}
             THEN [msg |-> Null, due |-> FALSE] ELSE @]

\* The loop body from the completeness check to the first agent call.
PassBody(s) ==
  IF s.state.prd.exists /\ isPrdComplete(s.state.prd.items)
  THEN Finish([s EXCEPT !.state.isComplete = TRUE,
                        !.h.step.bodyStart = "complete"])
  ELSE IF s.state.prd.exists
  THEN [s EXCEPT !.pc = "selecting",
                 !.enhancedProgressSummary = s.pendingIntervention,
                 !.selectedTaskDescription = EmptyString,
                 !.pendingIntervention = Null,
                 !.h.step.bodyStart = "incomplete",
                 !.h.step.calls = Append(@, "selection")]
  ELSE RunIterationStart(
         [s EXCEPT !.enhancedProgressSummary = s.pendingIntervention,
                   !.selectedTaskDescription = EmptyString,
                   !.pendingIntervention = Null,
                   !.h.step.bodyStart = "no task list"],
         "legacy")

\* A for statement that allows one pass more than args.iterations.
LoopHead_extraPass(s) ==
  IF s.i > iterations + 1
  THEN Finish(s)
  ELSE IF hitl /\ s.i > 1
  THEN [s EXCEPT !.pc = "waitEnter", !.state.iteration = @ + 1]
  ELSE PassBody([s EXCEPT !.state.iteration = @ + 1])

\* The for statement's test, state.iteration++ and the HITL pause.
LoopHead(s) ==
  IF s.i > iterations
  THEN Finish(s)
  ELSE IF hitl /\ s.i > 1
  THEN [s EXCEPT !.pc = "waitEnter", !.state.iteration = @ + 1]
  ELSE PassBody([s EXCEPT !.state.iteration = @ + 1])

\* selectNextTask has returned: the rest of the two-phase block, then the
\* call of runIteration.
\* A controller for which a failed selection is an error that ends the run.
AfterSelection_fatal(s, outcome) ==
  LET taskSelection == selectNextTask(cliFound, outcome)
      k == IF taskSelection.found
           THEN selectedTask(s.state.prd.items, taskSelection) ELSE 0
      task == getIncompleteItems(s.state.prd.items)[k]
  IN IF k # 0
     THEN RunIterationStart(
            [s EXCEPT !.selectedTaskDescription = task.description,
                      !.h.step.selection = "matched",
                      !.h.step.taskId = taskSelection.taskId,
                      !.h.step.chosen = task.id],
            "task")
     ELSE Finish([s EXCEPT !.state.lastError = "selection failed",
                           !.h.step.selection =
                              IF taskSelection.found THEN "unmatched"
                              ELSE "failed"])

AfterSelection(s, outcome) ==
  LET taskSelection == selectNextTask(cliFound, outcome)
      k == IF taskSelection.found
           THEN selectedTask(s.state.prd.items, taskSelection) ELSE 0
      task == getIncompleteItems(s.state.prd.items)[k]
  IN IF k # 0
     THEN RunIterationStart(
            [s EXCEPT !.selectedTaskDescription = task.description,
                      !.h.step.selection = "matched",
                      !.h.step.taskId = taskSelection.taskId,
                      !.h.step.chosen = task.id],
            "task")
     ELSE RunIterationStart(
            [s EXCEPT !.h.step.selection =
                         IF taskSelection.found THEN "unmatched"
                         ELSE "failed"],
            "legacy")

\* An interrupted branch without the two decrements.
InterruptedRetry_advancing(s, result) ==
  [s EXCEPT !.pendingIntervention =
               IF result.intervention # Null THEN result.intervention ELSE @,
            !.i = @ + 1,
            !.h.step.outcome = "interrupted",
            !.h.owed = [msg |-> Null, due |-> FALSE]]

\* The interrupted branch of runRalph: the message is kept for the retry
\* and both counters are taken back by one (the for statement's i++ and
\* the next pass's state.iteration++ then restore them).
InterruptedRetry(s, result) ==
  [s EXCEPT !.pendingIntervention =
               IF result.intervention # Null THEN result.intervention ELSE @,
            !.i = (@ - 1) + 1,
            !.state.iteration = @ - 1,
            !.h.step.outcome = "interrupted",
            !.h.owed = [msg |-> Null, due |-> FALSE]]

\* A success branch that records first and looks at the working tree last.
RecordSuccess_recordFirst(s, result, hasUncommittedChanges, commitSuccess) ==
  LET taskText == IF result.taskDescription # EmptyString
                  THEN result.taskDescription ELSE TaskCompletedText
      s2 == IF progressMode = "file"
            THEN [s EXCEPT !.progressFile =
                              appendProgress(@, s.state.iteration, taskText),
                           !.h.step.passLog = @ \o <<"appendProgress">>]
            ELSE s
      updatedPrd == markItemCompleteByDescription(s.state.prd.items,
                                                  result.taskDescription)
      s3 == IF s.state.prd.exists /\ result.taskDescription # EmptyString
               /\ updatedPrd.found
            THEN [s2 EXCEPT !.prdFile = savePrd(updatedPrd.items),
                            !.state.prd.items = updatedPrd.items,
                            !.h.step.passLog = @ \o <<"savePrd">>]
            ELSE s2
  IN [s3 EXCEPT !.h.step.passLog =
        @ \o <<IF hasUncommittedChanges THEN "git status: dirty"
               ELSE "git status: clean">>
          \o (IF hasUncommittedChanges
              THEN <<IF commitSuccess THEN "git commit"
                     ELSE "git commit failed">>
              ELSE << >>)]

\* The success branch of runRalph: the cleanliness check and safety-net
\* commit, the Memory Entry, the task-list update.
RecordSuccess(s, result, hasUncommittedChanges, commitSuccess) ==
  LET taskText == IF result.taskDescription # EmptyString
                  THEN result.taskDescription ELSE TaskCompletedText
      s2 == [s EXCEPT !.h.step.passLog =
               @ \o <<IF hasUncommittedChanges THEN "git status: dirty"
                      ELSE "git status: clean">>
                 \o (IF hasUncommittedChanges
                     THEN <<IF commitSuccess THEN "git commit"
                            ELSE "git commit failed">>
                     ELSE << >>)]
      s3 == IF progressMode = "file"
            THEN [s2 EXCEPT !.progressFile =
                               appendProgress(@, s.state.iteration, taskText),
                            !.h.step.passLog = @ \o <<"appendProgress">>]
            ELSE s2
      updatedPrd == markItemCompleteByDescription(s.state.prd.items,
                                                  result.taskDescription)
  IN IF s.state.prd.exists /\ result.taskDescription # EmptyString
        /\ updatedPrd.found
     THEN [s3 EXCEPT !.prdFile = savePrd(updatedPrd.items),
                     !.state.prd.items = updatedPrd.items,
                     !.h.step.passLog = @ \o <<"savePrd">>]
     ELSE s3

\* A failure branch that records the failed pass as if it had succeeded.
RecordFailure_recording(s, result) ==
  [s EXCEPT !.state.lastError = result.error,
            !.progressFile =
               IF progressMode = "file"
               THEN appendProgress(@, s.state.iteration, TaskCompletedText)
               ELSE @,
            !.state.prd.items =
               IF s.state.prd.exists /\ getIncompleteItems(@) # << >>
               THEN markItemComplete(@, getIncompleteItems(@)[1].id)
               ELSE @]

\* The failure branch of runRalph up to its test of args.hitl.
RecordFailure(s, result) ==
  [s EXCEPT !.state.lastError = result.error]

\* runRalph from the return of runIteration to the end of the loop body,
\* and on into the next pass.
HandleResult(s, r, hasUncommittedChanges, commitSuccess) ==
  LET result ==
        IF s.selectedTaskDescription # EmptyString
           /\ r.taskDescription = EmptyString
        THEN [r EXCEPT !.taskDescription = s.selectedTaskDescription]
        ELSE r
      s0 == [s EXCEPT !.h.step.result = result,
                      !.h.step.selected = s.selectedTaskDescription,
                      !.h.step.at = [i |-> s.i,
                                     iteration |-> s.state.iteration,
                                     items |-> s.state.prd.items,
                                     prdFile |-> s.prdFile,
                                     progressFile |-> s.progressFile,
                                     lastError |-> s.state.lastError]]
  IN
  IF result.wasInterrupted
  THEN LoopHead(InterruptedRetry(s0, result))
  ELSE
  LET s1 == [s0 EXCEPT !.pendingIntervention =
                          IF result.intervention # Null
                          THEN result.intervention ELSE @,
                       !.h.raised = IF @ = "current" THEN "completed" ELSE @,
                       !.h.returned = @ + 1,
                       !.h.owed = IF result.success /\ @.msg # Null
                                  THEN [@ EXCEPT !.due = TRUE]
                                  ELSE [msg |-> Null, due |-> FALSE],
                       !.h.step.outcome = IF result.success THEN "success"
                                          ELSE "failure"]
  IN
  IF result.success
  THEN
    LET s4 == RecordSuccess(s1, result, hasUncommittedChanges, commitSuccess)
    IN IF result.isComplete
       THEN Finish([s4 EXCEPT !.state.isComplete = TRUE])
       ELSE LoopHead([s4 EXCEPT !.i = @ + 1])
  ELSE
    LET s2 == RecordFailure(s1, result)
    IN IF ~hitl THEN Finish(s2) ELSE LoopHead([s2 EXCEPT !.i = @ + 1])

\* A result that never reports the sentinel.
SuccessResult_noSentinel(s) ==
  [success |-> TRUE,
   isComplete |-> FALSE,
   wasInterrupted |-> FALSE,
   taskDescription |->
     IF parseStructuredOutput(s.iter.fullOutput) # EmptyString
     THEN parseStructuredOutput(s.iter.fullOutput) ELSE TaskCompletedText,
   error |-> "",
   intervention |-> s.iter.intervention]

\* The value runIteration returns when its stream ends without an abort.
SuccessResult(s) ==
  [success |-> TRUE,
   isComplete |-> s.iter.isComplete,
   wasInterrupted |-> FALSE,
   taskDescription |->
     IF parseStructuredOutput(s.iter.fullOutput) # EmptyString
     THEN parseStructuredOutput(s.iter.fullOutput) ELSE TaskCompletedText,
   error |-> "",
   intervention |-> s.iter.intervention]

\* 'Iteration interrupted by user'
InterruptedText == <<"i">>

\* The value runIteration returns after the interrupt check fired.
InterruptedResult(s) ==
  [success |-> FALSE,
   isComplete |-> s.iter.isComplete,
   wasInterrupted |-> TRUE,
   taskDescription |-> InterruptedText,
   error |-> "",
   intervention |-> s.iter.intervention]

\* The value of the early returns and of the catch clause.
FailureResult(error) == [NoResult EXCEPT !.error = error]

(***************************************************************************)
(* The keyboard (keyboard.ts) and the 'intervention' handler of runRalph.  *)
(***************************************************************************)
\* handleKeyPress for Ctrl+\ and, synchronously inside emit, the handler up
\* to its await: promptForInput pauses the listener and opens a prompt.
handleKeyPress(s) ==
  [s EXCEPT !.keyboard.isInterrupted = TRUE,
            !.keyboard.isPaused = TRUE,
            !.handlerPrompt = TRUE,
            !.keyPresses = @ + 1,
            !.h.raised = IF s.pc = "running" THEN "current" ELSE "elsewhere"]

\* The question callback of promptForInput.
promptAnswered(s, msg) ==
  [s EXCEPT !.keyboard.isPaused = FALSE,
            !.keyboard.pendingIntervention = msg,
            !.linesTyped = IF msg # EmptyMessage THEN msg ELSE @]

\* The handler after its await: a non-empty message becomes runRalph's
\* pendingIntervention.
interventionHandler(s, msg) ==
  [s EXCEPT !.handlerPrompt = FALSE,
            !.pendingIntervention = IF msg # EmptyMessage THEN msg ELSE @]

\* runIteration after its own promptForInput: the abort of the iteration.
interruptReturn(s, msg) ==
  LET s1 == [s EXCEPT !.iter.intervention =
                         IF msg # EmptyMessage THEN msg ELSE @,
                      !.keyboard.isInterrupted = FALSE,
                      !.h.raised = "none"]
  IN HandleResult(s1, InterruptedResult(s1), FALSE, FALSE)

(***************************************************************************)
(* Actions.                                                                *)
(***************************************************************************)
\* runRalph from the end of its set-up into the first pass.
Start ==
  /\ pc = "start"
  /\ Apply(LoopHead(Cur))

\* The operator presses Ctrl+\.  Any stdin data also ends a HITL pause.
KeyPress ==
  /\ pc \notin {"start", "done"}
  /\ keyboard.isListening
  /\ ~keyboard.isPaused
  /\ keyPresses < MaxKeyPresses
  /\ IF pc = "waitEnter"
     THEN Apply(PassBody(handleKeyPress(Cur)))
     ELSE Apply(handleKeyPress(Cur))

\* The operator confirms a HITL pause with Enter (no prompt is open).
EnterPressed ==
  /\ pc = "waitEnter"
  /\ ~handlerPrompt
  /\ Apply(PassBody(Cur))

\* The operator types a line while a prompt is open.  With two prompts open
\* on the same input the line reaches one of them or both, and the order of
\* the handler's continuation and the controller's is not fixed.
OperatorLine ==
  /\ pc \notin {"start", "done"}
  /\ handlerPrompt \/ pc = "intPrompt"
  /\ \E msg \in {EmptyMessage}
                \cup (IF linesTyped < MaxLines THEN {linesTyped + 1} ELSE {}),
        toHandler \in BOOLEAN, toIter \in BOOLEAN, handlerFirst \in BOOLEAN :
       /\ toHandler \/ toIter
       /\ toHandler => handlerPrompt
       /\ toIter => pc = "intPrompt"
       /\ LET answered ==
                promptAnswered(
                  IF toHandler /\ pc = "running" /\ msg # EmptyMessage
                     /\ h.raised = "current"
                  THEN [Cur EXCEPT !.h.owed = [msg |-> msg, due |-> FALSE]]
                  ELSE Cur,
                  msg)
              Handler(s) == IF toHandler THEN interventionHandler(s, msg)
                            ELSE s
              Controller(s) ==
                IF toIter THEN interruptReturn(s, msg)
                ELSE IF pc = "waitEnter" THEN PassBody(s)
                ELSE s
          IN IF handlerFirst
             THEN Apply(Controller(Handler(answered)))
             ELSE Apply(Handler(Controller(answered)))

\* selectNextTask returns (Phase 1 is over).
SelectionReturns ==
  /\ pc = "selecting"
  /\ \E outcome \in SelectionOutcomes : Apply(AfterSelection(Cur, outcome))

\* The stream delivers an event while the interrupt flag is raised: the
\* iteration is aborted and the operator is prompted.
AgentInterrupted ==
  /\ pc = "running"
  /\ iter.received < MaxAgentMessages
  /\ keyboard.isInterrupted
  /\ Apply([Cur EXCEPT !.pc = "intPrompt",
                       !.keyboard.isPaused = TRUE,
                       !.iter.received = @ + 1])

\* The stream delivers an event that is processed.
AgentMessage ==
  /\ pc = "running"
  /\ iter.received < MaxAgentMessages
  /\ ~keyboard.isInterrupted
  /\ \E message \in AgentEvents :
       IF message.type = "assistant"
       THEN Apply([Cur EXCEPT
                     !.iter.fullOutput = Append(@, message.completed),
                     !.iter.isComplete = @ \/ message.marker,
                     !.iter.received = @ + 1])
       ELSE IF message.subtype # "success" /\ message.errors > 0
       THEN Apply(HandleResult(Cur, FailureResult("agent-error"),
                               FALSE, FALSE))
       ELSE Apply([Cur EXCEPT !.iter.received = @ + 1])

\* The stream ends: runIteration returns its result and runRalph records
\* the pass.  git's answers are the environment's.
AgentEnd ==
  /\ pc = "running"
  /\ \E hasUncommittedChanges \in BOOLEAN, commitSuccess \in BOOLEAN :
       Apply(HandleResult(Cur, SuccessResult(Cur),
                          hasUncommittedChanges, commitSuccess))

\* The query throws: the catch clause of runIteration.
AgentThrows ==
  /\ pc = "running"
  /\ Apply(HandleResult(Cur, FailureResult("exception"), FALSE, FALSE))

Next ==
  \/ Start
  \/ KeyPress
  \/ EnterPressed
  \/ OperatorLine
  \/ SelectionReturns
  \/ AgentInterrupted
  \/ AgentMessage
  \/ AgentEnd
  \/ AgentThrows

Spec == Init /\ [][Next]_vars

\* The run when every await of runRalph is resumed in the end: the agent's
\* calls return, the operator answers an open prompt and confirms a HITL
\* pause.  Each condition says that the run does not stay for ever where
\* the resuming step is enabled (weak fairness of that step, whose
\* enabling condition is written out).  Key presses need not happen.
LiveSpec ==
  /\ Spec
  /\ []<>(pc # "start")
  /\ []<>(pc # "selecting")
  /\ []<>(pc # "running")
  /\ []<>~(pc = "waitEnter" /\ ~handlerPrompt)
  /\ []<>~(pc \notin {"start", "done"} /\ (handlerPrompt \/ pc = "intPrompt"))

(***************************************************************************)
(* prd.ts alone: a document is parsed, then the exported functions are     *)
(* applied to the list in any order, as the controller and the            *)
(* complete-task tool may do.  The controller does not run.                *)
(***************************************************************************)
\* The lines the documents explored are made of.
DocumentLines ==
  { HeadingLine(2, TRUE, <<"High", "Priority">>),
    HeadingLine(1, TRUE, <<"Feature:", "a">>),
    HeadingLine(2, TRUE, <<"Acceptance", "Criteria">>),
    HeadingLine(2, FALSE, <<"Acceptance", "Criteria">>),
    CheckboxLine(" ", <<"c">>),
    CheckboxLine("x", <<"b">>),
    CheckboxLine(" ", <<"c", "high", "priority">>),
    CheckboxLine("WORKING", <<"B">>),
    StepLine(<<"a">>) }

Documents ==
  UNION { [1..n -> DocumentLines] : n \in 0..MaxDocLines }

\* The texts given to the functions that take a description.
Descriptions == { EmptyString, <<"a">>, <<"b">>, <<"c">> }

ControllerIdle ==
  /\ hitl = FALSE
  /\ iterations = 1
  /\ progressMode = "git"
  /\ cliFound = FALSE
  /\ pc = "start"
  /\ i = 1
  /\ progressFile = << >>
  /\ state = [iteration |-> 0, prd |-> NoPrd, isComplete |-> FALSE,
              lastError |-> ""]
  /\ prdFile = OriginalPrdFile
  /\ pendingIntervention = Null
  /\ enhancedProgressSummary = Null
  /\ selectedTaskDescription = EmptyString
  /\ iter = [fullOutput |-> << >>, isComplete |-> FALSE,
             intervention |-> Null, received |-> 0]
  /\ keyboard = [isListening |-> TRUE, isPaused |-> FALSE,
                 isInterrupted |-> FALSE, pendingIntervention |-> Null]
  /\ handlerPrompt = FALSE
  /\ keyPresses = 0
  /\ linesTyped = 0
  /\ exitStatus = NoExitCode
  /\ h = [injections |-> [m \in 1..MaxLines |-> 0],
         raised |-> "none",
         owed |-> [msg |-> Null, due |-> FALSE],
         returned |-> 0,
         step |-> NoStep]

ControllerUnchanged ==
  UNCHANGED <<hitl, iterations, progressMode, cliFound, pc, i, state,
              pendingIntervention, enhancedProgressSummary,
              selectedTaskDescription, iter, keyboard, handlerPrompt,
              progressFile, prdFile, keyPresses, linesTyped, exitStatus, h>>

\* loadPrd
PrdInit ==
  /\ ControllerIdle
  /\ gate = NoGate
  /\ tool = NoTool
  /\ setup = NoSetup
  /\ memo = NoMemo
  /\ \E content \in Documents :
       /\ taskList = parseMarkdownPrd(content)
       /\ call = [NoCall EXCEPT !.op = "parseMarkdownPrd",
                                !.lines = content, !.found = TRUE]

MarkWorking ==
  /\ call.n < MaxCalls
  /\ \E itemId \in 1..MaxDocLines :
       /\ taskList' = markItemWorking(taskList, itemId)
       /\ call' = [NoCall EXCEPT !.op = "markItemWorking", !.n = call.n + 1,
                                 !.before = taskList, !.itemId = itemId,
                                 !.found = TRUE]
  /\ ControllerUnchanged
  /\ UNCHANGED <<gate, tool, setup, memo>>

MarkCriterion ==
  /\ call.n < MaxCalls
  /\ \E itemId \in 1..MaxDocLines, text \in Descriptions :
       /\ taskList' = markCriterionComplete(taskList, itemId, text)
       /\ call' = [NoCall EXCEPT !.op = "markCriterionComplete",
                                 !.n = call.n + 1,
                                 !.before = taskList, !.itemId = itemId,
                                 !.text = text, !.found = TRUE]
  /\ ControllerUnchanged
  /\ UNCHANGED <<gate, tool, setup, memo>>

MarkComplete ==
  /\ call.n < MaxCalls
  /\ \E itemId \in 1..MaxDocLines :
       /\ taskList' = markItemComplete(taskList, itemId)
       /\ call' = [NoCall EXCEPT !.op = "markItemComplete", !.n = call.n + 1,
                                 !.before = taskList, !.itemId = itemId,
                                 !.found = TRUE]
  /\ ControllerUnchanged
  /\ UNCHANGED <<gate, tool, setup, memo>>

MarkByDescription ==
  /\ call.n < MaxCalls
  /\ \E text \in Descriptions :
       LET updatedPrd == markItemCompleteByDescription(taskList, text)
       IN /\ taskList' = updatedPrd.items
          /\ call' = [NoCall EXCEPT !.op = "markItemCompleteByDescription",
                                    !.n = call.n + 1,
                                    !.before = taskList, !.text = text,
                                    !.found = updatedPrd.found]
  /\ ControllerUnchanged
  /\ UNCHANGED <<gate, tool, setup, memo>>

\* savePrd followed by loadPrd of the file written.
SaveAndLoad ==
  /\ call.n < MaxCalls
  /\ \A k \in 1..Len(taskList) :
       Len(StatusIndicator(taskList[k]) \o taskList[k].description)
         <= MaxTextLen
  /\ taskList' = parseMarkdownPrd(prdToMarkdown(taskList))
  /\ call' = [NoCall EXCEPT !.op = "savePrd, loadPrd", !.n = call.n + 1,
                            !.lines = prdToMarkdown(taskList),
                            !.before = taskList, !.found = TRUE]
  /\ ControllerUnchanged
  /\ UNCHANGED <<gate, tool, setup, memo>>

PrdNext ==
  \/ MarkWorking
  \/ MarkCriterion
  \/ MarkComplete
  \/ MarkByDescription
  \/ SaveAndLoad

PrdSpec == PrdInit /\ [][PrdNext]_vars

(***************************************************************************)
(* config.ts alone: a configuration document is loaded and the checks are  *)
(* run, each command's child process behaving in any of the ways           *)
(* executeCommand distinguishes.                                           *)
(***************************************************************************)
ConfigLines ==
  { ConfigHeading(2, <<"Back", "pressure">>),
    ConfigHeading(2, <<"Setup", "commands">>),
    ConfigHeading(2, <<"Notes">>),
    ConfigBullet(<<Word("Build"), Colon, Ticked(<<"make", "build">>)>>),
    ConfigBullet(<<Word("Lint"), Remark("(optional)"), Colon,
                   Ticked(<<"make", "lint">>)>>),
    ConfigBullet(<<Word("Lint"), Colon, Ticked(<<"make", "lint">>),
                   Remark("(optional)")>>),
    ConfigBullet(<<Ticked(<<"make", "lint">>)>>),
    ConfigBlank }

ConfigDocuments ==
  { NoDocument }
  \cup { Document(lines) :
           lines \in UNION { [1..n -> ConfigLines] : n \in 0..MaxConfigLines } }

GateInit ==
  /\ ControllerIdle
  /\ taskList = << >>
  /\ call = NoCall
  /\ tool = NoTool
  /\ setup = NoSetup
  /\ memo = NoMemo
  /\ \E doc \in ConfigDocuments :
       gate = [NoGate EXCEPT !.pc = "idle", !.doc = doc]

\* loadBackPressureConfig(workingDir)
LoadConfig ==
  /\ gate.pc = "idle"
  /\ gate' = [gate EXCEPT !.pc = "loaded",
                          !.checks = loadBackPressureConfig(gate.doc)]
  /\ ControllerUnchanged
  /\ UNCHANGED <<taskList, call, tool, setup, memo>>

\* runBackPressureChecks(workingDir, checks) up to its first await.
RunChecks ==
  /\ gate.pc = "loaded"
  /\ gate' = NextAwait([gate EXCEPT !.doc = NoDocument, !.k = 1])
  /\ ControllerUnchanged
  /\ UNCHANGED <<taskList, call, tool, setup, memo>>

\* The command being awaited settles.
CommandSettles ==
  /\ gate.pc = "awaiting"
  /\ \E outcome \in ChildOutcomes : gate' = AfterCommand(gate, outcome)
  /\ ControllerUnchanged
  /\ UNCHANGED <<taskList, call, tool, setup, memo>>

\* The controller builds the memory summary of the next loop pass.
NextPassSummary ==
  /\ gate.pc = "returned"
  /\ gate' = [gate EXCEPT !.pc = "summarised",
                          !.summary = PassSummary(gate.results)]
  /\ ControllerUnchanged
  /\ UNCHANGED <<taskList, call, tool, setup, memo>>

GateNext ==
  \/ LoadConfig
  \/ RunChecks
  \/ CommandSettles
  \/ NextPassSummary

GateSpec == GateInit /\ [][GateNext]_vars

(***************************************************************************)
(* complete-task.ts alone: one call of executeCompleteTask on a working    *)
(* directory whose git commands succeed or fail in any combination.        *)
(***************************************************************************)
\* What git does in the call: 'git status --porcelain' prints changes
\* (dirty), prints nothing (clean) or fails; 'git add -A' and 'git commit'
\* succeed or fail.
GitBehaviours ==
  [status : {"dirty", "clean", "failed"}, stageOk : BOOLEAN,
   commitOk : BOOLEAN]

CompleteTaskConfigs ==
  [progressMode : {"git", "file"}, progressPath : BOOLEAN,
   prdPath : BOOLEAN, iteration : 0..1]

\* executeCompleteTask: step 1 (status), step 2 (stage and commit when
\* there are changes), step 3 (memory log, file mode), step 4 (task list),
\* then the result.  Steps 3 and 4 do not depend on the outcome of step 2.
executeCompleteTask(t, git) ==
  LET hasChanges == git.status = "dirty"
      committed == hasChanges /\ git.stageOk /\ git.commitOk
      writesProgress ==
        t.config.progressMode = "file" /\ t.config.progressPath
      iteration == IF t.config.iteration # 0 THEN t.config.iteration
                   ELSE getLastIteration(t.progress) + 1
      byWorking == markWorkingItemComplete(t.prd.items)
      updatedPrd == IF byWorking.found THEN byWorking
                    ELSE markItemCompleteByDescription(
                           t.prd.items, t.input.taskDescription)
      writesPrd == t.config.prdPath /\ t.prd.exists /\ updatedPrd.found
  IN [t EXCEPT
        !.pc = "returned",
        !.git = git,
        !.before = [prd |-> t.prd, progress |-> t.progress],
        !.progress = IF writesProgress
                     THEN appendProgress(@, iteration,
                                         t.input.taskDescription)
                     ELSE @,
        !.prd = IF writesPrd THEN Prd(updatedPrd.items) ELSE @,
        !.result = [success |-> committed \/ ~hasChanges,
                    committed |-> committed,
                    progressUpdated |-> writesProgress,
                    prdUpdated |-> writesPrd]]

ToolInit ==
  /\ ControllerIdle
  /\ taskList = << >>
  /\ call = NoCall
  /\ gate = NoGate
  /\ setup = NoSetup
  /\ memo = NoMemo
  /\ \E config \in CompleteTaskConfigs, prd \in InitialPrds,
        progress \in InitialProgressFiles,
        taskDescription \in {<<"a">>, <<"c">>} :
       tool = [NoTool EXCEPT !.pc = "called", !.config = config,
                             !.prd = prd, !.progress = progress,
                             !.input = [taskDescription |-> taskDescription]]

CompleteTask ==
  /\ tool.pc = "called"
  /\ \E git \in GitBehaviours : tool' = executeCompleteTask(tool, git)
  /\ ControllerUnchanged
  /\ UNCHANGED <<taskList, call, gate, setup, memo>>

ToolNext == CompleteTask

ToolSpec == ToolInit /\ [][ToolNext]_vars

(***************************************************************************)
(* The set-up of runRalph alone: the program is started with the command   *)
(* run or do, runRalph loads the config and chooses the task-list file,    *)
(* then a loop pass builds its memory summary and records its success.     *)
(***************************************************************************)
MaxCommits == 11

SetupInit ==
  /\ ControllerIdle
  /\ taskList = << >>
  /\ call = NoCall
  /\ gate = NoGate
  /\ tool = NoTool
  /\ memo = NoMemo
  /\ \E command \in {"run", "do"},
        files \in SUBSET {"do.md", "plans/prd.md", "prd.md"},
        envPrd \in {Unset, "env.md"}, confPrd \in {Unset, "conf.md"},
        envMode \in {Unset, "git", "file"}, confMode \in {Unset, "file"},
        n \in 0..MaxCommits, progress \in InitialProgressFiles :
       setup = [NoSetup EXCEPT
                  !.pc = "main", !.command = command, !.files = files,
                  !.env.RALPH_PRD_FILE = envPrd,
                  !.env.RALPH_PROGRESS_MODE = envMode,
                  !.fileConfig.prdFile = confPrd,
                  !.fileConfig.progressMode = confMode,
                  !.commits = [k \in 1..n |-> k],
                  !.progress = progress]

\* main with the command run: runRalph is called.
RunCommand ==
  /\ setup.pc = "main"
  /\ setup.command = "run"
  /\ setup' = [setup EXCEPT !.pc = "runRalph"]
  /\ ControllerUnchanged
  /\ UNCHANGED <<taskList, call, gate, tool, memo>>

\* main with the command do: handleDo writes do.md and calls runRalph.
DoCommand ==
  /\ setup.pc = "main"
  /\ setup.command = "do"
  /\ setup' = [setup EXCEPT !.pc = "runRalph",
                            !.files = handleDo(@)]
  /\ ControllerUnchanged
  /\ UNCHANGED <<taskList, call, gate, tool, memo>>

\* runRalph from loadConfig to the loop: prdPath is config.prdFile ||
\* findPrdFile(config.workingDir).
SetUp ==
  /\ setup.pc = "runRalph"
  /\ LET config == loadConfig(setup.env, setup.fileConfig)
     IN setup' = [setup EXCEPT
                    !.pc = "pass",
                    !.config = config,
                    !.prdPath = Or(config.prdFile, findPrdFile(setup.files))]
  /\ ControllerUnchanged
  /\ UNCHANGED <<taskList, call, gate, tool, memo>>

\* A loop pass builds its memory summary.
BuildSummary ==
  /\ setup.pc = "pass"
  /\ LET summary == SummaryByMode(setup.config.progressMode, setup.commits,
                                  setup.progress)
     IN setup' = [setup EXCEPT !.pc = "summarised",
                               !.summary = summary,
                               !.read = @ \cup {summary.from}]
  /\ ControllerUnchanged
  /\ UNCHANGED <<taskList, call, gate, tool, memo>>

\* The success branch of the pass: the Memory Entry is appended when
\* config.progressMode is 'file'.
RecordPass ==
  /\ setup.pc = "summarised"
  /\ setup' =
       IF setup.config.progressMode = "file"
       THEN [setup EXCEPT
               !.pc = "recorded",
               !.progress = appendProgress(@, 1, TaskCompletedText),
               !.written = @ \cup {"memory log"}]
       ELSE [setup EXCEPT !.pc = "recorded"]
  /\ ControllerUnchanged
  /\ UNCHANGED <<taskList, call, gate, tool, memo>>

SetupNext ==
  \/ RunCommand
  \/ DoCommand
  \/ SetUp
  \/ BuildSummary
  \/ RecordPass

SetupSpec == SetupInit /\ [][SetupNext]_vars


(***************************************************************************)
(* utils.ts alone: entries are appended to a new memory log, then the log  *)
(* is read back.                                                           *)
(***************************************************************************)
MaxEntries == 2

\* The entries createProgressEntry builds, with or without the results of
\* the quality gates.
ProgressEntries ==
  [iteration : 1..MaxLastIteration,
   taskDescription : {<<"a">>},
   decisions : {<< >>, <<<<"d">>>>},
   filesChanged : {<< >>, <<<<"f">>>>},
   backPressureResults :
     {<< >>,
      <<[name |-> "Lint", passed |-> TRUE, output |-> << >>]>>,
      <<[name |-> "Test", passed |-> FALSE, output |-> <<<<"e">>>>]>>}]

MemoInit ==
  /\ ControllerIdle
  /\ taskList = << >>
  /\ call = NoCall
  /\ gate = NoGate
  /\ tool = NoTool
  /\ setup = NoSetup
  /\ memo = [NoMemo EXCEPT !.pc = "writing"]

\* appendProgress
AppendEntry ==
  /\ memo.pc = "writing"
  /\ Len(memo.written) < MaxEntries
  /\ \E entry \in ProgressEntries :
       memo' = [memo EXCEPT !.file = appendProgressText(@, entry),
                            !.written = Append(@, entry)]
  /\ ControllerUnchanged
  /\ UNCHANGED <<taskList, call, gate, tool, setup>>

\* loadProgress
LoadEntries ==
  /\ memo.pc = "writing"
  /\ memo' = [memo EXCEPT !.pc = "loaded",
                          !.loaded = loadProgressText(memo.file)]
  /\ ControllerUnchanged
  /\ UNCHANGED <<taskList, call, gate, tool, setup>>

MemoNext ==
  \/ AppendEntry
  \/ LoadEntries

MemoSpec == MemoInit /\ [][MemoNext]_vars

TypeOK ==
  /\ pc \in {"start", "waitEnter", "selecting", "running", "intPrompt", "done"}
  /\ i \in 1..(iterations + 1)
  /\ pendingIntervention \in Null..MaxLines

(***************************************************************************)
(* Properties.                                                             *)
(***************************************************************************)
DoneItems(items) == { k \in 1..Len(items) : items[k].status = "done" }

PassingItems(items) == { k \in 1..Len(items) : items[k].passes }

AllItemsDone(items) == \A k \in 1..Len(items) : items[k].status = "done"

Occurs(log, entry) == \E k \in 1..Len(log) : log[k] = entry

\* Both entries occur in the log and the first one occurs earlier.
Before(log, first, second) ==
  \E j \in 1..Len(log), k \in 1..Len(log) :
    j < k /\ log[j] = first /\ log[k] = second

\* C1: every operator message is injected into the prompts of agent
\* invocations at most once over the whole run (not in two passes, not
\* twice in one pass).
C1_ConsumedAtMostOnce ==
  \A m \in 1..MaxLines : h.injections[m] <= 1

\* C2: when runIteration returns wasInterrupted, the retry starts with the
\* loop index and state.iteration the interrupted attempt had, and the
\* interrupted attempt appended no Memory Entry and changed the task list
\* neither in memory nor on disk.
C2_InterruptedRetry ==
  h.step.outcome = "interrupted" =>
    /\ pc \in {"waitEnter", "selecting", "running"}
    /\ i = h.step.at.i
    /\ state.iteration = h.step.at.iteration
    /\ progressFile = h.step.at.progressFile
    /\ state.prd.items = h.step.at.items
    /\ prdFile = h.step.at.prdFile

\* C2 witness: the second iteration of a file-mode run with a task list was
\* interrupted and is being retried.
C2_Witness ==
  /\ h.step.outcome = "interrupted"
  /\ i = 2
  /\ progressMode = "file"
  /\ state.prd.exists

\* C3: an intervention raised while the invocation of iteration k executes
\* has exactly one of two effects: iteration k completes, is recorded
\* normally and the message is in the next invocation's prompt; or
\* iteration k itself is interrupted and retried with the counters
\* unchanged.  It never aborts another iteration.
C3_InterventionOrdering ==
  /\ h.step.outcome = "interrupted" =>
       i = h.step.at.i /\ state.iteration = h.step.at.iteration
  /\ (h.step.outcome = "success" /\ progressMode = "file") =>
       Len(progressFile) = Len(h.step.at.progressFile) + 1
  /\ pc = "running" => ~h.owed.due
  /\ pc = "intPrompt" => h.raised # "completed"

\* C4: a failed invocation sets state.lastError to its error, appends no
\* Memory Entry and marks no item; without HITL the run ends there, with
\* HITL the loop goes on to the next iteration while iterations remain.
C4_FailureHandling ==
  h.step.outcome = "failure" =>
    /\ state.lastError = h.step.result.error
    /\ state.lastError # ""
    /\ progressFile = h.step.at.progressFile
    /\ state.prd.items = h.step.at.items
    /\ prdFile = h.step.at.prdFile
    /\ ~hitl => (pc = "done" /\ i = h.step.at.i)
    /\ (hitl /\ h.step.at.i < iterations) =>
         /\ pc = "waitEnter"
         /\ i = h.step.at.i + 1
         /\ state.iteration = h.step.at.iteration + 1
    /\ (hitl /\ h.step.at.i >= iterations) => pc = "done"

\* C4 witness: in HITL mode a failed first iteration has been followed by
\* the pause before the second.
C4_Witness ==
  /\ h.step.outcome = "failure"
  /\ hitl
  /\ pc = "waitEnter"
  /\ i = 2

\* C5: when runRalph has terminated and every item of the task list is
\* done, state.isComplete is true.
C5_AllDoneIsComplete ==
  (pc = "done" /\ state.prd.exists /\ AllItemsDone(state.prd.items))
    => state.isComplete

\* C6: the set of done items of the controller's task list never shrinks,
\* a loop pass adds at most one item to it, and an interrupted or failed
\* pass adds none.
C6_OneTaskAtATime ==
  [][/\ DoneItems(state.prd.items) \subseteq DoneItems(state'.prd.items)
     /\ PassingItems(state.prd.items) \subseteq PassingItems(state'.prd.items)
     /\ Cardinality(DoneItems(state'.prd.items)
                    \ DoneItems(state.prd.items)) <= 1
     /\ Cardinality(PassingItems(state'.prd.items)
                    \ PassingItems(state.prd.items)) <= 1
     /\ h'.step.outcome \in {"interrupted", "failure", "none"} =>
          state'.prd = state.prd]_vars

\* C6 witness: a pass has just marked one item of a two-item list done
\* while the other one is still open.
C6_Witness ==
  /\ h.step.outcome = "success"
  /\ Occurs(h.step.passLog, "savePrd")
  /\ Len(state.prd.items) = 2
  /\ Cardinality(DoneItems(state.prd.items)) = 1

\* C7: after a successful invocation the cleanliness check comes first; if
\* it reports changes the safety-net commit is attempted before the Memory
\* Entry is appended and before the task list is updated; a failed commit
\* neither skips the recording nor stops the loop.
C7_SafetyNetCommit ==
  h.step.outcome = "success" =>
    LET log == h.step.passLog
        commits == { k \in 1..Len(log) :
                       log[k] \in {"git commit", "git commit failed"} }
        records == { k \in 1..Len(log) :
                       log[k] \in {"appendProgress", "savePrd"} }
    IN /\ Len(log) >= 1
       /\ log[1] \in {"git status: dirty", "git status: clean"}
       /\ log[1] = "git status: dirty" <=> commits = {2}
       /\ \A k \in records : \A c \in commits : c < k
       /\ progressMode = "file" <=> Occurs(log, "appendProgress")
       /\ progressMode = "file" =>
            Len(progressFile) = Len(h.step.at.progressFile) + 1
       /\ Occurs(log, "savePrd") <=>
            (state.prd.exists
             /\ MatchedIndex(h.step.at.items, h.step.result.taskDescription)
                  # 0)
       /\ Occurs(log, "savePrd") =>
            (state.prd.items # h.step.at.items /\ prdFile # h.step.at.prdFile)
       /\ (~h.step.result.isComplete /\ h.step.at.i < iterations) =>
            (i = h.step.at.i + 1 /\ (pc = "done" => state.isComplete))

\* C7 witness: a file-mode pass whose commit attempt failed has appended
\* its Memory Entry and updated the task list, and the loop goes on.
C7_Witness ==
  /\ h.step.outcome = "success"
  /\ Occurs(h.step.passLog, "git commit failed")
  /\ Before(h.step.passLog, "appendProgress", "savePrd")
  /\ pc # "done"

\* C8: when Phase 1 fails (the call throws, its output matches no pattern,
\* or the selection matches no incomplete item) runIteration is called in
\* the same pass with the legacy full-task-list prompt; the selection
\* failure sets no lastError and does not end the loop.
C8_SelectionFallback ==
  [][h'.step.selection \in {"failed", "unmatched"} =>
       /\ state.prd.exists
       /\ h'.step.calls = <<"legacy">>
       /\ cliFound =>
            /\ pc' = "running"
            /\ h'.step.outcome = "none"
            /\ state'.lastError = state.lastError
            /\ i' = i
            /\ state'.iteration = state.iteration
       /\ ~cliFound =>
            /\ h'.step.outcome = "failure"
            /\ state'.lastError = "cli-not-found"]_vars

\* C8 witness: a parsed selection matched no incomplete item and the
\* implementation invocation is running.
C8_Witness ==
  /\ h.step.selection = "unmatched"
  /\ pc = "running"

\* C9: when a pass starts with a task list whose items are all done (or
\* that has no items) the run becomes complete and ends with no agent call
\* in that pass.
C9_AlreadyComplete ==
  (h.step.bodyStart # "none" /\ state.prd.exists
   /\ AllItemsDone(state.prd.items))
    => (pc = "done" /\ state.isComplete /\ h.step.calls = << >>)

\* C9 witness: the second pass found the list complete whose only item the
\* first pass had marked done.
C9_Witness ==
  /\ h.step.bodyStart = "complete"
  /\ h.step.outcome = "success"
  /\ Occurs(h.step.passLog, "savePrd")
  /\ i = 2
  /\ Len(state.prd.items) = 1
  /\ AllItemsDone(state.prd.items)
  /\ pc = "done"

\* C10: a completion sentinel in any text block of an invocation that
\* succeeds ends the run as complete after that pass's recording, with no
\* further agent call; a sentinel seen in an interrupted or failed
\* invocation sets nothing and the loop goes on as without it.
C10_CompletionSentinel ==
  [][/\ (h'.step.outcome = "success" /\ iter.isComplete) =>
          /\ pc' = "done"
          /\ state'.isComplete
          /\ h'.step.calls = << >>
          /\ h'.step.bodyStart = "none"
          /\ progressMode = "file" => Occurs(h'.step.passLog, "appendProgress")
     /\ (h'.step.outcome \in {"interrupted", "failure"}) =>
          ~state'.isComplete
     /\ (h'.step.outcome = "interrupted" /\ iter.isComplete) => pc' # "done"
     /\ (h'.step.outcome = "failure" /\ iter.isComplete /\ hitl
         /\ i < iterations) => pc' = "waitEnter"]_vars

\* C10 witness: the sentinel ended the run in its first iteration although
\* an iteration and an open item remained.
C10_Witness ==
  /\ h.step.outcome = "success"
  /\ h.step.result.isComplete
  /\ pc = "done"
  /\ i < iterations
  /\ state.prd.exists
  /\ ~AllItemsDone(state.prd.items)

\* C17: when the description a successful invocation reports matches no
\* incomplete item, the controller leaves the task list as it was in memory
\* and on disk (no save), sets no error, and goes on to the next pass, where
\* the same items are still incomplete.
C17_ReconciliationMiss ==
  (/\ h.step.outcome = "success"
   /\ state.prd.exists
   /\ MatchedIndex(h.step.at.items, h.step.result.taskDescription) = 0) =>
    /\ state.prd.items = h.step.at.items
    /\ prdFile = h.step.at.prdFile
    /\ ~Occurs(h.step.passLog, "savePrd")
    /\ state.lastError = h.step.at.lastError
    /\ (~h.step.result.isComplete /\ h.step.at.i < iterations) =>
         /\ i = h.step.at.i + 1
         /\ pc \in {"selecting", "waitEnter"}
         /\ getIncompleteItems(state.prd.items)
              = getIncompleteItems(h.step.at.items)
         /\ getIncompleteItems(state.prd.items) # << >>

\* C17 witness: the first pass succeeded with a description that matches no
\* item, and the selection of the second pass is under way with the item
\* still open.
C17_Witness ==
  /\ h.step.outcome = "success"
  /\ state.prd.exists
  /\ MatchedIndex(h.step.at.items, h.step.result.taskDescription) = 0
  /\ pc = "selecting"
  /\ i = 2
  /\ getIncompleteItems(state.prd.items) # << >>

\* C18: when a parsed selection is matched back into the list and some
\* incomplete item has the selected id, that item is the one chosen; the
\* description match only decides when no incomplete item has the id.
C18_IdMatchFirst ==
  (/\ h.step.selection = "matched"
   /\ \E k \in 1..Len(state.prd.items) :
        /\ ~state.prd.items[k].passes
        /\ state.prd.items[k].id = h.step.taskId) =>
    h.step.chosen = h.step.taskId

C30_HitlBlocks ==
  /\ [](pc = "waitEnter" => hitl /\ i > 1)
  /\ [][(hitl /\ pc # "waitEnter" /\ h'.step.bodyStart # "none") =>
          i = 1]_vars
  /\ [][(pc = "waitEnter" /\ h'.step.bodyStart # "none") =>
          (keyPresses' = keyPresses /\ ~handlerPrompt)]_vars

\* C31: when a failed agent invocation stops the run outside HITL mode, the
\* process ends with an exit status other than 0.
C31_FatalExit ==
  (pc = "done" /\ ~hitl /\ h.step.outcome = "failure") =>
    (exitStatus # NoExitCode /\ exitStatus # 0)

\* C35: a press of the intervention key opens one operator prompt: the
\* prompt of the 'intervention' handler and the prompt of the interrupt
\* check in runIteration are never open at the same time.
C35_OnePrompt == ~(handlerPrompt /\ pc = "intPrompt")

\* C36: an implementation invocation is aborted as interrupted only when
\* the intervention key was pressed after that invocation started: a flag
\* raised during task selection, a HITL pause or an earlier invocation that
\* has completed aborts no later invocation.
C36_InterruptOnlyCurrent ==
  [][(pc = "running" /\ pc' = "intPrompt") => h.raised = "current"]_vars

\* C37: when Phase 1 selected an item and the implementation invocation
\* succeeds with no "## Completed:" line in its output, the selected item is
\* done in the task list after the pass.
C37_SelectedTaskMarked ==
  (/\ h.step.outcome = "success"
   /\ h.step.selected # EmptyString
   /\ parseStructuredOutput(iter.fullOutput) = EmptyString) =>
    \E k \in 1..Len(state.prd.items) :
      /\ state.prd.items[k].description = h.step.selected
      /\ state.prd.items[k].status = "done"

\* C38: at the end of a successful pass in which the cleanliness check and
\* the safety-net commit (if one was needed) succeeded, the controller's own
\* writes of the pass, the memory entry and the task-list file, are covered
\* by a commit made after them in that pass.
C38_WritesCommitted ==
  (/\ h.step.outcome = "success"
   /\ ~Occurs(h.step.passLog, "git commit failed")) =>
    \A write \in {"appendProgress", "savePrd"} :
      Occurs(h.step.passLog, write) =>
        \E j, k \in 1..Len(h.step.passLog) :
          /\ j < k
          /\ h.step.passLog[j] = write
          /\ h.step.passLog[k] = "git commit"

C11_StatusFromCriteria ==
  \A k \in 1..Len(taskList) :
    Len(taskList[k].acceptanceCriteria) > 0 =>
      (taskList[k].status = "done"
         <=> AllDone(taskList[k].acceptanceCriteria))

\* C12: in every task list reached by parsing a document and applying
\* mark-working, mark-criterion-done and mark-item-complete, every item
\* has passes = (status = done).
C12_PassesInSync ==
  \A k \in 1..Len(taskList) :
    taskList[k].passes <=> (taskList[k].status = "done")

\* Item-level equality of two lists: the same number of items, and item by
\* item the same id, description, priority, status and set of criteria.
CriteriaSet(item) ==
  { item.acceptanceCriteria[c] : c \in 1..Len(item.acceptanceCriteria) }

ItemEqual(a, b) ==
  /\ a.id = b.id
  /\ a.description = b.description
  /\ a.priority = b.priority
  /\ a.status = b.status
  /\ CriteriaSet(a) = CriteriaSet(b)

ItemsEqual(l1, l2) ==
  Len(l1) = Len(l2) /\ \A k \in 1..Len(l1) : ItemEqual(l1[k], l2[k])

\* C13: for every list L produced by the parser, with or without mark
\* operations applied, parsing the document prdToMarkdown writes for L
\* gives a list item-equal to L.
C13_RoundTrip ==
  call.op = "savePrd, loadPrd" => ItemsEqual(taskList, call.before)

\* The list the parser returns for the first k lines of a document.
ParsedPrefix(lines, k) == parseMarkdownPrd(SubSeq(lines, 1, k))

MentionsAnyTier(line) ==
  \E tier \in {"high", "medium", "low"} : MentionsTier(line, tier)

\* Line k is a criterion line '- [ ] text' or '- [x] text' of the Acceptance
\* Criteria subsection of a feature item: a feature heading at some line
\* j, the sub-heading '## Acceptance Criteria' at j + 1, and only
\* criterion lines from there to k.
IsCriterionLineOfFeature(lines, k) ==
  \E j \in 1..(k - 2) :
    /\ IsFeatureMatch(lines[j]) /\ ~IsSectionHeader(lines[j])
    /\ ~IsTitle(lines[j])
    /\ lines[j + 1] = HeadingLine(2, TRUE, <<"Acceptance", "Criteria">>)
    /\ \A m \in (j + 2)..k :
         /\ lines[m].kind = "checkbox"
         /\ lines[m].box \in {" ", "x", "X"}
         /\ ~MentionsAnyTier(lines[m])

\* C14: a criterion line under the '## Acceptance Criteria' sub-heading of
\* an open feature item appends exactly one criterion to that item, with
\* done = (x or X in the box), and leaves the number of items unchanged.
C14_CriterionLines ==
  call.lines # << >> =>
    \A k \in 1..Len(call.lines) :
      IsCriterionLineOfFeature(call.lines, k) =>
        LET with == ParsedPrefix(call.lines, k)
            without == ParsedPrefix(call.lines, k - 1)
        IN /\ Len(with) = Len(without)
           /\ Len(with) > 0
           /\ with[Len(with)].acceptanceCriteria =
                Append(without[Len(without)].acceptanceCriteria,
                       [description |-> call.lines[k].text,
                        done |-> (call.lines[k].box \in {"x", "X"})])

\* The item the claimed rule chooses for a description: the first item not
\* yet done that has exactly this description, else the first item not yet
\* done whose lower-cased description contains or is contained in the
\* lower-cased text; 0 if there is none.
FirstOf(S) == IF S = {} THEN 0 ELSE CHOOSE k \in S : \A j \in S : k <= j

NotDoneExact(items, d) ==
  { k \in 1..Len(items) :
      items[k].status # "done" /\ items[k].description = d }

NotDoneFuzzy(items, d) ==
  { k \in 1..Len(items) :
      /\ items[k].status # "done"
      /\ \/ Includes(ToLowerCase(items[k].description), ToLowerCase(d))
         \/ Includes(ToLowerCase(d), ToLowerCase(items[k].description)) }

ChosenByRule(items, d) ==
  IF NotDoneExact(items, d) # {} THEN FirstOf(NotDoneExact(items, d))
  ELSE FirstOf(NotDoneFuzzy(items, d))

\* C15: markItemCompleteByDescription(L, d) returns null when the rule
\* chooses no item, and otherwise returns L with exactly the chosen item
\* marked done; an item that is already done is never the one matched.
C15_MatchByDescription ==
  call.op = "markItemCompleteByDescription" =>
    LET chosen == ChosenByRule(call.before, call.text)
    IN /\ call.found <=> chosen # 0
       /\ chosen = 0 => taskList = call.before
       /\ chosen # 0 =>
            /\ taskList[chosen].status = "done"
            /\ taskList[chosen].passes
            /\ \A k \in 1..Len(taskList) :
                 k # chosen => taskList[k] = call.before[k]

\* The scenario of C16: the list has two items, the one marked is a High
\* item without criteria, the other a Medium item that is not done.
HighAndMedium(items, itemId, high, medium) ==
  /\ Len(items) = 2
  /\ {high, medium} = {1, 2}
  /\ items[high].id = itemId
  /\ items[high].priority = "high"
  /\ items[high].acceptanceCriteria = << >>
  /\ items[medium].priority = "medium"
  /\ items[medium].status # "done"
  /\ ~items[medium].passes

C19_NoCriteriaStaysOpen ==
  call.op \in {"markItemWorking", "markCriterionComplete"} =>
    \A k \in 1..Len(call.before) :
      (/\ call.before[k].id = call.itemId
       /\ call.before[k].acceptanceCriteria = << >>) =>
        /\ taskList[k].status = "done" => call.before[k].status = "done"
        /\ taskList[k].passes => call.before[k].passes

\* The parser's locals before line k of a document is read.
ParserBefore(lines, k) == ParseLines(ParserStart, SubSeq(lines, 1, k - 1))

\* C20: only heading lines switch the priority tier.  A '## <Tier> Priority'
\* heading puts the open item (if any) into the result and opens no item;
\* a checkbox or bullet line whose text merely mentions a tier leaves the
\* current tier unchanged.
C20_OnlyHeadingsSwitchTier ==
  \A k \in 1..Len(call.lines) :
    LET line == call.lines[k]
        st == ParserBefore(call.lines, k)
        after == ParseLine(st, line)
    IN /\ (line.kind = "heading" /\ line.level = 2 /\ MentionsAnyTier(line)) =>
            /\ after.items = PushCurrent(st).items
            /\ ~after.open
       /\ (line.kind # "heading" /\ MentionsAnyTier(line)) =>
            after.currentPriority = st.currentPriority

\* The three buckets of getItemsByPriority in the order high, medium, low.
BucketsInOrder(items) ==
  getItemsByPriority(items).high \o getItemsByPriority(items).medium
    \o getItemsByPriority(items).low

\* The items of a list whose status is not done, in list order.
NotDoneItems(items) == SelectSeq(items, LAMBDA item : item.status # "done")

\* C21: getItemsByPriority returns no done item, and high ++ medium ++ low
\* holds exactly the items that are not done, each once, in their original
\* relative order inside each tier.
C21_ByPriority ==
  /\ \A k \in 1..Len(BucketsInOrder(taskList)) :
       BucketsInOrder(taskList)[k].status # "done"
  /\ \A tier \in {"high", "medium", "low"} :
       getItemsByPriority(taskList)[tier]
         = SelectSeq(NotDoneItems(taskList),
                     LAMBDA item : item.priority = tier)

(***************************************************************************)
(* Properties of config.ts alone (GateSpec).                               *)
(***************************************************************************)
\* The log entries of the commands run for check j.
RunsOf(log, j) == SelectSeq(log, LAMBDA e : e.k = j)

\* C22: allPassed is the conjunction of passed over the required checks
\* only; every check of the list is reported, in declaration order, and a
\* configured command is executed exactly once, whatever failed before it.
C22_RequiredOnly ==
  gate.pc \in {"awaiting", "returned", "summarised"} =>
    /\ Len(gate.results) = gate.k - 1
    /\ gate.pc # "awaiting" => Len(gate.results) = Len(gate.checks)
    /\ \A j \in 1..Len(gate.results) :
         /\ gate.results[j].name = gate.checks[j].name
         /\ gate.results[j].command = gate.checks[j].command
         /\ gate.checks[j].command # AutoDetect =>
              /\ Len(RunsOf(gate.log, j)) = 1
              /\ RunsOf(gate.log, j)[1].command = gate.checks[j].command
              /\ gate.results[j].passed
                   = (RunsOf(gate.log, j)[1].outcome = "exit0")
    /\ \A m \in 1..(Len(gate.log) - 1) : gate.log[m].k <= gate.log[m + 1].k
    /\ gate.allPassed
         = \A j \in 1..Len(gate.results) :
             gate.checks[j].required => gate.results[j].passed

\* C22 witness: the call has returned two results, a non-required check
\* failed and allPassed is true.
C22_Witness ==
  /\ gate.pc = "returned"
  /\ Len(gate.results) = 2
  /\ \E j \in 1..2 : ~gate.checks[j].required /\ ~gate.results[j].passed
  /\ gate.allPassed

\* The document has a heading that names the section.
HasSection(lines, title) ==
  \E k \in 1..Len(lines) :
    lines[k].kind = "heading" /\ ToLowerCase(lines[k].title) = title

\* C23: when the configuration document is missing or empty, has neither a
\* 'Back pressure' nor a 'Setup commands' section, or yields no check, the
\* list loaded is Typecheck, Lint, Test in this order, each auto-detected
\* and required.
C23_DefaultChecks ==
  (/\ gate.pc = "loaded"
   /\ \/ ~gate.doc.exists
      \/ gate.doc.lines = << >>
      \/ /\ ~HasSection(gate.doc.lines, <<"back", "pressure">>)
         /\ ~HasSection(gate.doc.lines, <<"setup", "commands">>)
      \/ parseBackPressureConfig(gate.doc.lines) = << >>) =>
    gate.checks
      = <<[name |-> <<"Typecheck">>, command |-> <<"AUTO_DETECT">>,
           required |-> TRUE],
          [name |-> <<"Lint">>, command |-> <<"AUTO_DETECT">>,
           required |-> TRUE],
          [name |-> <<"Test">>, command |-> <<"AUTO_DETECT">>,
           required |-> TRUE]>>

\* C23 witness: a document with a 'Back pressure' section that holds no
\* command has been loaded as the three default checks.
C23_Witness ==
  /\ gate.pc = "loaded"
  /\ gate.doc.exists
  /\ HasSection(gate.doc.lines, <<"back", "pressure">>)
  /\ SectionStart(gate.doc.lines, <<"back", "pressure">>) # 0
  /\ parseBackPressureConfig(gate.doc.lines) = << >>
  /\ Len(gate.checks) = 3

\* C24: for an auto-detected check the candidates are run in their fixed
\* order, each one only after all earlier ones exited with 127; the first
\* candidate that does not exit with 127 gives the check's result and no
\* later candidate is run; when all exit with 127 the check is reported as
\* passed with the 'none configured' message.
C24_AutoDetect ==
  /\ \A j \in 1..Len(gate.results) :
       (gate.checks[j].command = AutoDetect
        /\ Candidates(gate.checks[j].name) # << >>) =>
         LET runs == RunsOf(gate.log, j)
             cands == Candidates(gate.checks[j].name)
             last == runs[Len(runs)]
         IN /\ Len(runs) \in 1..Len(cands)
            /\ \A m \in 1..Len(runs) : runs[m].command = cands[m]
            /\ \A m \in 1..(Len(runs) - 1) : runs[m].outcome = "exit127"
            /\ last.outcome # "exit127" =>
                 /\ gate.results[j].passed = (last.outcome = "exit0")
                 /\ gate.results[j].note # "none configured"
            /\ last.outcome = "exit127" =>
                 /\ Len(runs) = Len(cands)
                 /\ gate.results[j].passed
                 /\ gate.results[j].note = "none configured"
  /\ (gate.pc = "awaiting" /\ gate.cand > 0) =>
       /\ Len(RunsOf(gate.log, gate.k)) = gate.cand - 1
       /\ \A m \in 1..(gate.cand - 1) :
            RunsOf(gate.log, gate.k)[m].outcome = "exit127"

\* C24 witness: every candidate of the first default check exited with
\* 127, the check passed, and the call returned with allPassed true.
C24_Witness ==
  /\ gate.pc = "returned"
  /\ gate.checks[1].command = AutoDetect
  /\ Len(RunsOf(gate.log, 1)) = 4
  /\ gate.results[1].note = "none configured"
  /\ gate.results[1].passed
  /\ gate.allPassed

\* The section of the scenario: '## Back pressure', '- Build: `make build`'
\* and '- Lint (optional): `make lint`'.
BuildAndOptionalLint ==
  <<ConfigHeading(2, <<"Back", "pressure">>),
    ConfigBullet(<<Word("Build"), Colon, Ticked(<<"make", "build">>)>>),
    ConfigBullet(<<Word("Lint"), Remark("(optional)"), Colon,
                   Ticked(<<"make", "lint">>)>>)>>

\* C25: that section is loaded as a required Build check and a non-required
\* Lint check, and with 'make build' succeeding and 'make lint' failing the
\* run of these two checks ends with allPassed true.
C25_OptionalLint ==
  /\ (gate.pc = "loaded" /\ gate.doc = Document(BuildAndOptionalLint)) =>
       gate.checks = <<Check(<<"Build">>, <<"make", "build">>, TRUE),
                       Check(<<"Lint">>, <<"make", "lint">>, FALSE)>>
  /\ (/\ gate.pc = "returned"
      /\ gate.checks = <<Check(<<"Build">>, <<"make", "build">>, TRUE),
                         Check(<<"Lint">>, <<"make", "lint">>, FALSE)>>
      /\ gate.log[1].outcome = "exit0"
      /\ gate.log[2].outcome # "exit0") =>
       gate.allPassed

\* C26: a command that exceeds its timeout yields one result, a failure
\* with exit code -1; its check is recorded as not passed and the checks
\* after it are still run and reported.
C26_TimeoutIsFailure ==
  \A m \in 1..Len(gate.log) :
    gate.log[m].outcome = "timeout" =>
      LET j == gate.log[m].k
      IN /\ j <= Len(gate.results)
         /\ ~gate.results[j].passed
         /\ gate.results[j].exitCode = -1
         /\ gate.results[j].note = "timed out"
         /\ gate.pc \in {"awaiting", "returned", "summarised"}
         /\ gate.pc \in {"returned", "summarised"} =>
              \A n \in (j + 1)..Len(gate.checks) :
                /\ n <= Len(gate.results)
                /\ (gate.checks[n].command # AutoDetect
                    \/ Candidates(gate.checks[n].name) # << >>) =>
                     Len(RunsOf(gate.log, n)) >= 1

\* C26 witness: the first of two configured commands timed out, the second
\* one was run, and the call returned both results.
C26_Witness ==
  /\ gate.pc = "returned"
  /\ Len(gate.log) = 2
  /\ gate.log[1].outcome = "timeout"
  /\ gate.log[2].k = 2
  /\ Len(gate.results) = 2
  /\ ~gate.results[1].passed

\* C27: when a quality gate failed in a loop pass, the memory summary built
\* for the next pass carries the 'fix before continuing' banner and lists
\* the checks with their results.
C27_FailurePropagates ==
  (/\ gate.pc = "summarised"
   /\ \E j \in 1..Len(gate.results) : ~gate.results[j].passed) =>
    /\ gate.summary.banner = "fix before continuing"
    /\ Len(gate.summary.lines) = Len(gate.results)
    /\ \A j \in 1..Len(gate.results) :
         /\ gate.summary.lines[j].name = gate.results[j].name
         /\ gate.summary.lines[j].passed = gate.results[j].passed

(***************************************************************************)
(* Properties of complete-task.ts alone (ToolSpec).                        *)
(***************************************************************************)
\* C29: executeCompleteTask is all-or-nothing: when there are uncommitted
\* changes and staging or committing them fails, no Memory Entry is
\* appended and no item of the task list is marked done.
C29_AtomicCompletion ==
  (/\ tool.pc = "returned"
   /\ tool.git.status = "dirty"
   /\ ~(tool.git.stageOk /\ tool.git.commitOk)) =>
    /\ tool.progress = tool.before.progress
    /\ tool.prd = tool.before.prd
    /\ ~tool.result.progressUpdated
    /\ ~tool.result.prdUpdated

(***************************************************************************)
(* Properties of the set-up of runRalph alone (SetupSpec).                  *)
(***************************************************************************)
\* The first existing file in the order do.md, plans/prd.md, prd.md.
FirstExisting(existing) ==
  IF "do.md" \in existing THEN "do.md"
  ELSE IF "plans/prd.md" \in existing THEN "plans/prd.md"
  ELSE IF "prd.md" \in existing THEN "prd.md"
  ELSE NoPath

\* C32: with no task-list file configured, the controller works on the
\* first existing file in the order do.md, plans/prd.md, prd.md; the run
\* started by the do command works on the do.md it has just written.
C32_TaskListFileOrder ==
  (setup.pc \in {"pass", "summarised", "recorded"}
   /\ setup.env.RALPH_PRD_FILE = Unset /\ setup.fileConfig.prdFile = Unset) =>
    /\ setup.prdPath = FirstExisting(setup.files)
    /\ setup.command = "do" => setup.prdPath = "do.md"

\* C33: with no progress mode configured, the memory summary of a pass is
\* the last 10 entries of the log of the repository, and the memory log is
\* neither read nor written.
C33_DefaultGitMode ==
  (setup.pc \in {"summarised", "recorded"}
   /\ setup.env.RALPH_PROGRESS_MODE = Unset
   /\ setup.fileConfig.progressMode = Unset) =>
    /\ setup.summary.from = "git log"
    /\ setup.summary.entries = getProgressFromGit(setup.commits)
    /\ "memory log" \notin setup.read \cup setup.written

(***************************************************************************)
(* Properties of the memory log alone (MemoSpec).                           *)
(***************************************************************************)
\* C34: every entry appended by appendProgress is read back by loadProgress
\* with the same iteration number, task description, decisions and files
\* changed.
C34_ReadBack ==
  memo.pc = "loaded" =>
    \A k \in 1..Len(memo.written) :
      /\ k <= Len(memo.loaded)
      /\ memo.loaded[k].iteration = memo.written[k].iteration
      /\ memo.loaded[k].taskDescription = memo.written[k].taskDescription
      /\ memo.loaded[k].decisions = memo.written[k].decisions
      /\ memo.loaded[k].filesChanged = memo.written[k].filesChanged

====
